---- MODULE Spec2Model ----
(***************************************************************************)
(* Credential verification, validation cache and usage ledger of the       *)
(* trc_platform backend.                                                   *)
(*                                                                         *)
(* Part I  - the usage ledger: BillingPeriod rows, RequestLog rows, the    *)
(*           period resolution of usage/utils.py, the metering of          *)
(*           SolveView (one transaction) and of TestSolveView (autocommit),*)
(*           the payment methods of BillingPeriod and their callers (the   *)
(*           admin actions, mark_overdue_periods, direct calls).           *)
(* Part II - the resolvers: the credential store and its revoke endpoint, *)
(*           TokenCache on its own and inside the caching authenticate(),  *)
(*           the uncached authenticate(), the last-used touch statement by *)
(*           statement, and SolveView from the header to the ledger.       *)
(*                                                                         *)
(* The database is PostgreSQL at its default isolation level (settings.py  *)
(* line 72): a statement sees the committed rows and the writes of its own *)
(* transaction; a write takes a row lock that is held until the            *)
(* transaction ends, and a writer that meets a locked row waits.  Every    *)
(* statement is one step.  All ledger rows belong to one owner: every      *)
(* ledger statement filters by user, so owners do not interact.            *)
(***************************************************************************)
EXTENDS Integers, Sequences, FiniteSets, Bags, TLC

VARIABLES
    month,      \* the calendar month of timezone.now()
    rows,       \* table billing_periods: a sequence, a row's id is its index
    logs,       \* table request_logs: a bag of rows (the ids are left out)
    tx,         \* per worker: the pending writes of its open transaction
    proc,       \* per worker: position and locals of the request it serves
    nOps,       \* number of requests started so far
    straddled,  \* history: the month changed while a period resolution, or a
                \* transaction that had made one, was in progress
    returned,   \* history: per month, the ids get_or_create_... returned, and
                \* whether the call lost the race for the INSERT
    metered,    \* history: per month and endpoint, the metering operations
                \* that completed for a period_start of that month
    overlap,    \* history: two metering operations overlapped in time
    marked,     \* history: the last call of a payment method or admin action
    answer      \* history: the last response of a solve or test-solve request

ledgerVars == <<month, rows, logs, tx, proc, nOps, straddled, returned,
                metered, overlap, marked, answer>>

VARIABLES
    now,        \* the clock, time.time(), in ticks
    users,      \* table users: is_active, email verified
    tokens,     \* table api_tokens: a sequence, a row's id is its index
    installed,  \* the caching resolver the deployment installs
    tcache,     \* its TokenCache.cache, least recently used first
    marker,     \* Django cache keys token_last_updated:<id>: expiry time
    res,        \* per worker: position and locals of the resolve it runs
    nRes,       \* number of resolves started so far
    last,       \* the resolve of a caching resolver that returned last
    plain,      \* the last request through the resolver without a cache
    cop,        \* the last call of TokenCache.get, .set or .invalidate
    hist,       \* history: per key of the cache, when and how it was accessed
    req,        \* the last request to the revoke endpoint and its response
    lock        \* TokenCache.lock: the worker that holds it, or 0

authVars ==
    <<now, users, tokens, installed, tcache, marker, res, nRes, last, plain,
      cop, hist, req, lock>>

vars == <<ledgerVars, authVars>>

----------------------------------------------------------------------------
(* Bounds *)
NProcs == 2        \* workers serving requests concurrently
MaxMonth == 2      \* calendar months
MaxOps == 3        \* requests started in a behaviour

(* Settings.cost_per_request_cents: its default *)
cost_per_request_cents == 100

Procs == 1..NProcs
Months == 1..MaxMonth
RowIds == 1..Len(rows)

NoRow == [id |-> 0, is_current |-> FALSE, payment_status |-> "none",
          total_requests |-> 0, total_cost_cents |-> 0]
NoTx == [clr |-> {}, setcur |-> 0, inc |-> 0]
Idle == [pc |-> "idle", op |-> "none", today |-> 0, bp |-> NoRow,
         status |-> "none", raced |-> FALSE]

----------------------------------------------------------------------------
(* The store as a statement sees it *)

\* SolveView._defer_logging runs inside transaction.atomic(); the other
\* callers run each statement in autocommit mode.
InTx(p) == proc[p].op = "solve"

\* Row r carries a lock of a transaction other than p's.
Locked(r, p) ==
    \E q \in Procs \ {p} :
        \/ r \in tx[q].clr
        \/ r = tx[q].setcur
        \/ r = tx[q].inc
        \/ rows[r].by = q

\* The rows a statement of p can see: committed ones and p's own inserts.
Visible(p) == {r \in RowIds : rows[r].by \in {0, p}}

\* Row r with the pending writes of p's transaction applied.
View(p, r) ==
    [id |-> r,
     is_current |-> IF r = tx[p].setcur THEN TRUE
                    ELSE IF r \in tx[p].clr THEN FALSE
                    ELSE rows[r].is_current,
     payment_status |-> rows[r].payment_status,
     total_requests |-> rows[r].total_requests + (IF r = tx[p].inc THEN 1 ELSE 0),
     total_cost_cents |-> rows[r].total_cost_cents
                          + (IF r = tx[p].inc THEN cost_per_request_cents ELSE 0)]

\* A table without the unique constraint: no INSERT conflicts.
UniqueConflictNone(m) == {}

\* unique_together = ["user", "period_start"]: the committed rows that an
\* INSERT for period_start m conflicts with, and the uncommitted ones of
\* other transactions that make it wait.
UniqueConflict(m) == {r \in RowIds : rows[r].by = 0 /\ rows[r].period_start = m}
UniqueWait(m, p) == {r \in RowIds : rows[r].by \notin {0, p, -1} /\ rows[r].period_start = m}

----------------------------------------------------------------------------
(* BillingPeriod: payment methods (usage/models.py) and their admin guards *)

Raise(b) == [raised |-> TRUE, payment_status |-> b.payment_status,
             paid_amount_cents |-> -1]

can_be_marked_paid(b) ==
    ~b.is_current /\ b.payment_status \in {"pending", "overdue"}

\* amount_cents=None, the default of the parameter.
NoAmount == -1

\* The amounts a caller supplies: none, zero, less and more than the total.
Amounts == {NoAmount, 0, cost_per_request_cents, 3 * cost_per_request_cents}

\* Python's a or d: d when a is None or 0.
Or(a, d) == IF a = NoAmount \/ a = 0 THEN d ELSE a

\* mark_as_paid(amount_cents=a): paid_amount_cents = amount_cents or
\* self.total_cost_cents.
mark_as_paid_amount(b, a) ==
    IF b.is_current THEN Raise(b)
    ELSE IF b.payment_status = "paid" THEN Raise(b)
    ELSE [raised |-> FALSE, payment_status |-> "paid",
          paid_amount_cents |-> Or(a, b.total_cost_cents)]

\* amount_cents is None when the admin action calls it: the amount recorded
\* is the instance's total_cost_cents.
mark_as_paid(b) == mark_as_paid_amount(b, NoAmount)

\* A mark_as_overdue that tests nothing but is_current.
mark_as_overdue_unguarded(b) ==
    IF b.is_current THEN Raise(b)
    ELSE [raised |-> FALSE, payment_status |-> "overdue", paid_amount_cents |-> -1]

mark_as_overdue(b) ==
    IF b.is_current THEN Raise(b)
    ELSE IF b.payment_status = "paid" THEN Raise(b)
    ELSE [raised |-> FALSE, payment_status |-> "overdue", paid_amount_cents |-> -1]

mark_as_waived(b) ==
    IF b.is_current THEN Raise(b)
    ELSE [raised |-> FALSE, payment_status |-> "waived", paid_amount_cents |-> -1]

\* BillingPeriodAdmin actions: the test made on each selected instance
\* before the model method is called.
AdminSelects(kind, b) ==
    CASE kind = "paid" -> can_be_marked_paid(b)
      [] kind = "overdue" -> ~b.is_current /\ b.payment_status # "paid"
      [] kind = "waived" -> ~b.is_current /\ b.payment_status \notin {"paid", "waived"}

MarkMethod(kind, b) ==
    CASE kind = "paid" -> mark_as_paid(b)
      [] kind = "overdue" -> mark_as_overdue(b)
      [] kind = "waived" -> mark_as_waived(b)

\* No request has reached the revoke endpoint.
NoReq == [called |-> FALSE, principal |-> 0, token |-> 0, was |-> 0, code |-> 0]

\* No payment method has been called.
NoMark == [called |-> FALSE, via |-> "none", kind |-> "none",
           invoked |-> FALSE, raised |-> FALSE, inst |-> NoRow,
           was |-> "none", is |-> "none", changed |-> FALSE,
           amount |-> NoAmount, stale |-> FALSE]

----------------------------------------------------------------------------
(* Responses of the metered endpoints *)

\* No metered request has been answered.
NoAnswer == [n |-> 0, op |-> "none", status |-> "none", failed |-> "none",
             code |-> 0]

\* SolveView.post (core/views.py 121-128, 146-149) and TestSolveView.post
\* (customers/views.py 552-560, 610-613): the Response returned once the
\* metering call has returned: 200 with the result after a model call that
\* succeeded, 500 with the error code after one that raised OpenAIError.
ResponseCode(status) == IF status = "success" THEN 200 ELSE 500

\* The request of worker p is answered with code; failed names the ledger
\* statement that raised, if one did.
Answers(p, failed, code) ==
    answer' = [n |-> answer.n + 1, op |-> proc[p].op, status |-> proc[p].status,
               failed |-> failed, code |-> code]

----------------------------------------------------------------------------
(* Ledger: initial state *)

\* The table is empty, or the owner's period of the first month exists
\* already (an earlier CurrentBillingPeriodView request created it).
FirstPeriod == [period_start |-> 1, is_current |-> TRUE,
                payment_status |-> "pending", total_requests |-> 0,
                total_cost_cents |-> 0, paid_amount_cents |-> -1, by |-> 0]

LedgerInit ==
    /\ month = 1
    /\ rows \in {<< >>, <<FirstPeriod>>}
    /\ logs = EmptyBag
    /\ tx = [p \in Procs |-> NoTx]
    /\ proc = [p \in Procs |-> Idle]
    /\ nOps = 0
    /\ straddled = FALSE
    /\ returned = [m \in Months |-> {}]
    /\ metered = [m \in Months |-> [solve |-> 0, test |-> 0]]
    /\ overlap = FALSE
    /\ marked = NoMark
    /\ answer = NoAnswer

GocPcs == {"clear", "get", "create", "setcur"}

----------------------------------------------------------------------------
(* Requests reaching the ledger *)

\* A request starts its ledger work: get_or_create_current_billing_period
\* reads the clock and computes period_start (usage/utils.py 13-14).
Begin(p, op, status) ==
    /\ proc[p].pc = "idle"
    /\ nOps < MaxOps
    /\ nOps' = nOps + 1
    /\ proc' = [proc EXCEPT ![p] = [pc |-> "clear", op |-> op, today |-> month,
                                     bp |-> NoRow, status |-> status,
                                     raced |-> FALSE]]
    /\ UNCHANGED <<month, rows, logs, tx, straddled, returned, metered, overlap>>
    /\ UNCHANGED <<marked, answer>>
    /\ UNCHANGED authVars

\* SolveView.post: openai_client.solve_image returned (status success) or
\* raised OpenAIError (status error); _defer_logging opens its transaction.
SolveBegin(p, status) == Begin(p, "solve", status)

\* TestSolveView.post, success branch or error branch.
TestSolveBegin(p, status) == Begin(p, "test", status)

\* CurrentBillingPeriodView.get and the create_billing_periods command call
\* the period resolution alone.
CurrentPeriodBegin(p) == Begin(p, "goc", "none")

----------------------------------------------------------------------------
(* get_or_create_current_billing_period (usage/utils.py 24-38) *)

\* What the caller does with the returned row.
Returns(p, b) ==
    /\ returned' = [returned EXCEPT ![proc[p].today] =
                        @ \cup {[id |-> b.id, raced |-> proc[p].raced]}]
    /\ proc' = [proc EXCEPT ![p] =
                    IF proc[p].op = "goc" THEN Idle
                    ELSE [@ EXCEPT !.pc = "log", !.bp = b]]

\* Line 25: filter(user=user, is_current=True).update(is_current=False)
ClearCurrent(p) ==
    /\ proc[p].pc = "clear"
    /\ LET match == {r \in Visible(p) : View(p, r).is_current} IN
        /\ \A r \in match : ~Locked(r, p)
        /\ IF InTx(p)
           THEN /\ tx' = [tx EXCEPT ![p].clr = @ \cup match]
                /\ UNCHANGED rows
           ELSE /\ rows' = [r \in RowIds |->
                              IF r \in match
                              THEN [rows[r] EXCEPT !.is_current = FALSE]
                              ELSE rows[r]]
                /\ UNCHANGED tx
    /\ proc' = [proc EXCEPT ![p].pc = "get"]
    /\ UNCHANGED <<month, logs, nOps, straddled, returned, metered, overlap>>
    /\ UNCHANGED <<marked, answer>>
    /\ UNCHANGED authVars

\* The request_logs table after p's inserts are committed.
CommitLogs(p) ==
    LET mine == [l \in {k \in DOMAIN logs : k.by = p} |-> logs[l]]
        rest == [l \in {k \in DOMAIN logs : k.by # p} |-> logs[l]]
        asCommitted == [l \in {[k EXCEPT !.by = 0] : k \in DOMAIN mine} |->
                           logs[[l EXCEPT !.by = p]]]
    IN rest (+) asCommitted

\* An undo that leaves the log rows of p in the table, as if each INSERT had
\* been committed on its own.
RollbackKeepsLogs(p) ==
    /\ rows' = [r \in RowIds |->
                  IF rows[r].by = p THEN [rows[r] EXCEPT !.by = -1] ELSE rows[r]]
    /\ logs' = CommitLogs(p)
    /\ tx' = [tx EXCEPT ![p] = NoTx]

\* Undo the open transaction of p: its inserts disappear, its locks go.
Rollback(p) ==
    /\ rows' = [r \in RowIds |->
                  IF rows[r].by = p THEN [rows[r] EXCEPT !.by = -1] ELSE rows[r]]
    /\ logs' = [l \in {k \in DOMAIN logs : k.by # p} |-> logs[l]]
    /\ tx' = [tx EXCEPT ![p] = NoTx]

\* Lines 28-32, the lookup of get_or_create: one row is returned (and, if
\* it is current, the function returns it), none sends the caller to the
\* INSERT, several raise MultipleObjectsReturned (which _defer_logging
\* swallows after rolling back, and the other callers propagate).
GetPeriod(p) ==
    /\ proc[p].pc = "get"
    /\ LET found == {r \in Visible(p) : rows[r].period_start = proc[p].today} IN
        IF found = {}
        THEN /\ proc' = [proc EXCEPT ![p].pc = "create"]
             /\ UNCHANGED <<rows, logs, tx, returned>>
        ELSE IF Cardinality(found) > 1
        THEN /\ proc' = [proc EXCEPT ![p] = Idle]
             /\ Rollback(p)
             /\ UNCHANGED returned
        ELSE LET b == View(p, CHOOSE r \in found : TRUE) IN
             IF b.is_current
             THEN /\ Returns(p, b)
                  /\ UNCHANGED <<rows, logs, tx>>
             ELSE /\ proc' = [proc EXCEPT ![p].pc = "setcur", ![p].bp = b]
                  /\ UNCHANGED <<rows, logs, tx, returned>>
    /\ UNCHANGED <<month, nOps, straddled, metered, overlap>>
    /\ UNCHANGED <<marked, answer>>
    /\ UNCHANGED authVars

\* Lines 28-32, the INSERT of get_or_create with defaults is_current=True.
\* A committed row with the same (user, period_start) makes it fail with
\* IntegrityError, which get_or_create answers by looking the row up again;
\* an uncommitted one makes it wait.
CreatePeriod(p) ==
    /\ proc[p].pc = "create"
    /\ UniqueWait(proc[p].today, p) = {}
    /\ IF UniqueConflict(proc[p].today) # {}
       THEN /\ proc' = [proc EXCEPT ![p].pc = "get", ![p].raced = TRUE]
            /\ UNCHANGED <<rows, returned>>
       ELSE LET id == Len(rows) + 1
                row == [period_start |-> proc[p].today, is_current |-> TRUE,
                        payment_status |-> "pending", total_requests |-> 0,
                        total_cost_cents |-> 0, paid_amount_cents |-> -1,
                        by |-> IF InTx(p) THEN p ELSE 0]
            IN /\ rows' = Append(rows, row)
               /\ Returns(p, [id |-> id, is_current |-> TRUE,
                              payment_status |-> "pending", total_requests |-> 0,
                              total_cost_cents |-> 0])
    /\ UNCHANGED <<month, logs, tx, nOps, straddled, metered, overlap>>
    /\ UNCHANGED <<marked, answer>>
    /\ UNCHANGED authVars

\* Lines 34-36: the row existed and the instance read is not current:
\* is_current = True; save(update_fields=["is_current"]).
SetCurrent(p) ==
    /\ proc[p].pc = "setcur"
    /\ LET b == proc[p].bp IN
        /\ ~Locked(b.id, p)
        /\ IF InTx(p)
           THEN /\ tx' = [tx EXCEPT ![p].setcur = b.id]
                /\ UNCHANGED rows
           ELSE /\ rows' = [rows EXCEPT ![b.id].is_current = TRUE]
                /\ UNCHANGED tx
        /\ Returns(p, [b EXCEPT !.is_current = TRUE])
    /\ UNCHANGED <<month, logs, nOps, straddled, metered, overlap>>
    /\ UNCHANGED <<marked, answer>>
    /\ UNCHANGED authVars

----------------------------------------------------------------------------
(* Metering *)

\* RequestLog.objects.create(...): core/views.py 187-199 (service
\* core.image_solve, inside the transaction) and customers/views.py 509-520,
\* 570-582 (service customers.test_solve, autocommit).
LogRow(p, by) ==
    [status |-> proc[p].status,
     billing_period |-> proc[p].bp.id,
     service |-> IF proc[p].op = "solve" THEN "core.image_solve"
                 ELSE "customers.test_solve",
     by |-> by]

\* A metering that logs successful model calls only.
CreateLogSuccessOnly(p) ==
    /\ proc[p].pc = "log"
    /\ logs' = IF proc[p].status = "success"
               THEN logs (+) SetToBag({LogRow(p, IF InTx(p) THEN p ELSE 0)})
               ELSE logs
    /\ proc' = [proc EXCEPT ![p].pc = "inc"]
    /\ UNCHANGED <<month, rows, tx, nOps, straddled, returned, metered, overlap>>
    /\ UNCHANGED <<marked, answer>>
    /\ UNCHANGED authVars

CreateLog(p) ==
    /\ proc[p].pc = "log"
    /\ logs' = logs (+) SetToBag({LogRow(p, IF InTx(p) THEN p ELSE 0)})
    /\ proc' = [proc EXCEPT ![p].pc = "inc"]
    /\ UNCHANGED <<month, rows, tx, nOps, straddled, returned, metered, overlap>>
    /\ UNCHANGED <<marked, answer>>
    /\ UNCHANGED authVars

\* History of a metering operation that completes.
Finished(p) ==
    /\ metered' = [metered EXCEPT ![proc[p].today][proc[p].op] = @ + 1]
    /\ overlap' = (overlap \/ \E q \in Procs \ {p} : proc[q].op \in {"solve", "test"})

\* The new totals of row r when the instance b is saved with
\* update_fields total_requests, total_cost_cents.
\* TestSolveView (customers/views.py 547-549, 606-608) adds to the values
\* of the instance it read earlier and writes the sums.
InstanceTotals(r, b) ==
    [total_requests |-> b.total_requests + 1,
     total_cost_cents |-> b.total_cost_cents + cost_per_request_cents]

\* The totals written from the instance where SolveView uses F-expressions.
ReadModifyWriteTotals(r, b) == InstanceTotals(r, b)

\* SolveView (core/views.py 202-206) assigns F("total_requests") + 1 and
\* F("total_cost_cents") + cost: the UPDATE adds to the row's own values.
FExpressionTotals(r, b) ==
    [total_requests |-> rows[r].total_requests + 1,
     total_cost_cents |-> rows[r].total_cost_cents + cost_per_request_cents]

\* TestSolveView: billing_period.save(update_fields=[totals, updated_at]),
\* one autocommit UPDATE; the request is then answered.
TestSolveSave(p) ==
    /\ proc[p].pc = "inc"
    /\ proc[p].op = "test"
    /\ LET b == proc[p].bp
           t == InstanceTotals(b.id, b)
       IN /\ ~Locked(b.id, p)
          /\ rows' = [rows EXCEPT ![b.id].total_requests = t.total_requests,
                                  ![b.id].total_cost_cents = t.total_cost_cents]
    /\ Finished(p)
    /\ proc' = [proc EXCEPT ![p] = Idle]
    /\ Answers(p, "none", ResponseCode(proc[p].status))
    /\ UNCHANGED <<month, logs, tx, nOps, straddled, returned>>
    /\ UNCHANGED marked
    /\ UNCHANGED authVars

\* SolveView: billing_period.save(update_fields=[totals]) inside the
\* transaction: the row is locked and the addition is pending until commit.
SolveSave(p) ==
    /\ proc[p].pc = "inc"
    /\ proc[p].op = "solve"
    /\ ~Locked(proc[p].bp.id, p)
    /\ tx' = [tx EXCEPT ![p].inc = proc[p].bp.id]
    /\ proc' = [proc EXCEPT ![p].pc = "commit"]
    /\ UNCHANGED <<month, rows, logs, nOps, straddled, returned, metered, overlap>>
    /\ UNCHANGED <<marked, answer>>
    /\ UNCHANGED authVars

\* SolveView: the with transaction.atomic() block ends (core/views.py 182):
\* the pending writes become the committed state and the locks go.
SolveCommit(p) ==
    /\ proc[p].pc = "commit"
    /\ rows' = [r \in RowIds |->
                  LET v == View(p, r)
                      t == IF r = tx[p].inc THEN FExpressionTotals(r, proc[p].bp)
                           ELSE [total_requests |-> rows[r].total_requests,
                                 total_cost_cents |-> rows[r].total_cost_cents]
                  IN [rows[r] EXCEPT
                        !.is_current = v.is_current,
                        !.total_requests = t.total_requests,
                        !.total_cost_cents = t.total_cost_cents,
                        !.by = IF @ = p THEN 0 ELSE @]]
    /\ logs' = CommitLogs(p)
    /\ tx' = [tx EXCEPT ![p] = NoTx]
    /\ Finished(p)
    /\ proc' = [proc EXCEPT ![p] = Idle]
    /\ Answers(p, "none", ResponseCode(proc[p].status))
    /\ UNCHANGED <<month, nOps, straddled, returned>>
    /\ UNCHANGED marked
    /\ UNCHANGED authVars

\* The ledger statement a request is about to run when it raises.
LedgerPcs == GocPcs \cup {"log", "inc"}
Stage(pc) == IF pc \in GocPcs THEN "period" ELSE pc

\* SolveView._defer_logging: the next statement of the with
\* transaction.atomic() block raises (a database error; core/views.py
\* 182-206).  The block is left by the exception, so the transaction is
\* rolled back; except Exception (213-215) logs the error and returns, and
\* post goes on to the Response it had prepared.
SolveRaises(p) ==
    /\ proc[p].op = "solve"
    /\ proc[p].pc \in LedgerPcs
    /\ Rollback(p)
    /\ Answers(p, Stage(proc[p].pc), ResponseCode(proc[p].status))
    /\ proc' = [proc EXCEPT ![p] = Idle]
    /\ UNCHANGED <<month, nOps, straddled, returned, metered, overlap>>
    /\ UNCHANGED marked
    /\ UNCHANGED authVars

\* TestSolveView.post: the next ledger statement raises.  Each statement
\* ran in autocommit mode, so what was written stays; the exception is no
\* OpenAIError (or is raised inside that handler), leaves post, and the
\* framework answers 500.
TestSolveRaises(p) ==
    /\ proc[p].op = "test"
    /\ proc[p].pc \in LedgerPcs
    /\ Answers(p, Stage(proc[p].pc), 500)
    /\ proc' = [proc EXCEPT ![p] = Idle]
    /\ UNCHANGED <<month, rows, logs, tx, nOps, straddled, returned, metered, overlap>>
    /\ UNCHANGED marked
    /\ UNCHANGED authVars

----------------------------------------------------------------------------
(* Payment methods called on loaded instances: by the admin actions       *)
(* (usage/admin.py 107-135), by the mark_overdue_periods command and by any *)
(* other caller of the model                                                *)

\* The action's queryset is evaluated: an instance of a committed row.
AdminLoad(p, r) ==
    /\ proc[p].pc = "idle"
    /\ r \in RowIds
    /\ rows[r].by = 0
    /\ proc' = [proc EXCEPT ![p] = [pc |-> "mark", op |-> "admin", today |-> 0,
                                     bp |-> View(p, r), status |-> "none",
                                     raced |-> FALSE]]
    /\ UNCHANGED <<month, rows, logs, tx, nOps, straddled, returned, metered, overlap>>
    /\ UNCHANGED <<marked, answer>>
    /\ UNCHANGED authVars

\* BillingPeriod.objects.get(...): a caller of the model loads an instance.
ModelLoad(p, r) ==
    /\ proc[p].pc = "idle"
    /\ r \in RowIds
    /\ rows[r].by = 0
    /\ proc' = [proc EXCEPT ![p] = [pc |-> "mark", op |-> "model", today |-> 0,
                                     bp |-> View(p, r), status |-> "none",
                                     raced |-> FALSE]]
    /\ UNCHANGED <<month, rows, logs, tx, nOps, straddled, returned, metered, overlap>>
    /\ UNCHANGED <<marked, answer>>
    /\ UNCHANGED authVars

\* mark_overdue_periods: the loop draws an instance from the queryset
\* filter(period_end__lt=cutoff_date, payment_status="pending",
\* is_current=False); every period of an earlier month can be past the cutoff.
CommandLoad(p, r) ==
    /\ proc[p].pc = "idle"
    /\ r \in RowIds
    /\ rows[r].by = 0
    /\ rows[r].period_start < month
    /\ rows[r].payment_status = "pending"
    /\ ~rows[r].is_current
    /\ proc' = [proc EXCEPT ![p] = [pc |-> "mark", op |-> "command", today |-> 0,
                                     bp |-> View(p, r), status |-> "none",
                                     raced |-> FALSE]]
    /\ UNCHANGED <<month, rows, logs, tx, nOps, straddled, returned, metered, overlap>>
    /\ UNCHANGED <<marked, answer>>
    /\ UNCHANGED authVars

\* A save that writes the whole instance b over the row.
SaveWholeInstance(row, b, m, kind) ==
    [row EXCEPT !.payment_status = m.payment_status,
                !.paid_amount_cents = IF kind = "paid" THEN m.paid_amount_cents ELSE @,
                !.total_requests = b.total_requests,
                !.total_cost_cents = b.total_cost_cents,
                !.is_current = b.is_current]

\* self.save(update_fields=[...]) of the payment methods: payment_status
\* always, paid_amount_cents in mark_as_paid; the other fields named
\* (paid_at, payment_reference, payment_notes, updated_at) are no variables
\* of the model.  The UPDATE touches no other column of the row.
SavePaymentFields(row, b, m, kind) ==
    [row EXCEPT !.payment_status = m.payment_status,
                !.paid_amount_cents = IF kind = "paid" THEN m.paid_amount_cents ELSE @]

\* The caller, when selected holds of the instance, calls the model method,
\* which tests the instance and saves the payment fields (update_fields) by
\* primary key.
CallMethod(p, via, kind, selected, a) ==
    /\ proc[p].pc = "mark"
    /\ proc[p].op = via
    /\ LET b == proc[p].bp
           m == IF kind = "paid" THEN mark_as_paid_amount(b, a)
                ELSE MarkMethod(kind, b)
       IN /\ IF selected /\ ~m.raised
             THEN /\ ~Locked(b.id, p)
                  /\ rows' = [rows EXCEPT
                                ![b.id] = SavePaymentFields(@, b, m, kind)]
             ELSE UNCHANGED rows
          /\ marked' = [called |-> TRUE, via |-> via, kind |-> kind,
                        invoked |-> selected,
                        raised |-> selected /\ m.raised,
                        inst |-> b,
                        was |-> rows[b.id].payment_status,
                        is |-> rows'[b.id].payment_status,
                        changed |-> rows' # rows,
                        amount |-> a,
                        stale |-> (View(p, b.id) # b)]
    /\ proc' = [proc EXCEPT ![p] = Idle]
    /\ UNCHANGED <<month, logs, tx, nOps, straddled, returned, metered, overlap, answer>>
    /\ UNCHANGED authVars

\* A call that supplies no amount.
CallMark(p, via, kind, selected) == CallMethod(p, via, kind, selected, NoAmount)

\* period.mark_as_paid(amount_cents=a) with an amount the caller supplies
\* (MarkBillingPeriodAsPaidSerializer admits None and every a >= 0).
PayAmount(p, a) == CallMethod(p, "model", "paid", TRUE, a)

\* The admin action tests the instance before it calls the method.
AdminMark(p, kind) == CallMark(p, "admin", kind, AdminSelects(kind, proc[p].bp))

\* period.mark_as_paid(), .mark_as_overdue() or .mark_as_waived().
ModelMark(p, kind) == CallMark(p, "model", kind, TRUE)

\* mark_overdue_periods: period.mark_as_overdue() in the loop.
CommandMark(p) == CallMark(p, "command", "overdue", TRUE)

----------------------------------------------------------------------------
(* The calendar *)

NextMonth ==
    /\ month < MaxMonth
    /\ month' = month + 1
    /\ straddled' = (straddled \/ \E p \in Procs :
                         proc[p].pc \in GocPcs \/ tx[p] # NoTx \/ InTx(p))
    /\ UNCHANGED <<rows, logs, tx, proc, nOps, returned, metered, overlap>>
    /\ UNCHANGED <<marked, answer>>
    /\ UNCHANGED authVars

----------------------------------------------------------------------------
(* Ledger properties *)

Quiescent == \A p \in Procs : proc[p].pc = "idle"
Committed == {r \in RowIds : rows[r].by = 0}
CurrentRows == {r \in Committed : rows[r].is_current}
NoneBy(op) == \A m \in Months : metered[m][op] = 0
RowOf(m) == {r \in Committed : rows[r].period_start = m}

\* C1: when only SolveView metering has run and every request has
\* committed, the period of each month has total_requests equal to the
\* number N of SolveView requests metered for that month and
\* total_cost_cents equal to N times the cost per request: no increment is
\* lost.
C1_SolveNoLostIncrement ==
    (Quiescent /\ NoneBy("test")) =>
        \A m \in Months :
            /\ metered[m].solve > 0 => RowOf(m) # {}
            /\ \A r \in RowOf(m) :
                  /\ rows[r].total_requests = metered[m].solve
                  /\ rows[r].total_cost_cents =
                         metered[m].solve * cost_per_request_cents

\* Two SolveView requests that overlapped have both committed on one period.
C1_Witness ==
    /\ Quiescent
    /\ NoneBy("test")
    /\ overlap
    /\ \E r \in Committed : rows[r].total_requests = 2

\* C2: when every request has finished, each period's totals count every
\* metering request, those of TestSolveView included.
C2_TestSolveNoLostIncrement ==
    Quiescent =>
        \A m \in Months : \A r \in RowOf(m) :
            /\ rows[r].total_requests = metered[m].solve + metered[m].test
            /\ rows[r].total_cost_cents =
                   (metered[m].solve + metered[m].test) * cost_per_request_cents

\* C3: all calls of get_or_create_current_billing_period for one month
\* return the same id, there is one row per period_start, and when the
\* calls of one month have all finished exactly one row is current.
C3_PeriodResolutionConverges ==
    /\ \A m \in Months : Cardinality({x.id : x \in returned[m]}) <= 1
    /\ \A r1, r2 \in RowIds :
          (rows[r1].by # -1 /\ rows[r2].by # -1
           /\ rows[r1].period_start = rows[r2].period_start) => r1 = r2
    /\ (Quiescent /\ ~straddled /\ \E m \in Months : returned[m] # {}) =>
          Cardinality(CurrentRows) = 1

\* Two first calls raced: one inserted the row, the other lost the INSERT
\* and looked the row up again; both have returned.
C3_Witness ==
    /\ Quiescent
    /\ ~straddled
    /\ \E m \in Months :
          /\ \E x \in returned[m] : x.raced
          /\ \E x \in returned[m] : ~x.raced

\* C4: at most one committed row is current.
C4_AtMostOneCurrent == Cardinality(CurrentRows) <= 1

\* C5: a current period is pending.
C5_CurrentIsPending ==
    \A r \in CurrentRows : rows[r].payment_status = "pending"

\* The committed part of the request_logs table.
CommittedLogs(L) == [l \in {k \in DOMAIN L : k.by = 0} |-> L[l]]

\* The effect of the commit of p's metering transaction.
C6_Step(p) ==
    LET b == proc[p].bp.id
        row == LogRow(p, 0)
    IN /\ proc[p].status \in {"success", "error"}
       /\ row.status = proc[p].status
       /\ row.billing_period = b
       /\ CommittedLogs(logs') = CommittedLogs(logs) (+) SetToBag({row})
       /\ rows'[b].by = 0
       /\ rows'[b].period_start = proc[p].today
       /\ rows'[b].total_requests = rows[b].total_requests + 1
       /\ rows'[b].total_cost_cents = rows[b].total_cost_cents + cost_per_request_cents
       /\ \A r \in RowIds \ {b} :
             /\ rows'[r].total_requests = rows[r].total_requests
             /\ rows'[r].total_cost_cents = rows[r].total_cost_cents

----------------------------------------------------------------------------
(* Part II: API credentials and the resolvers that authenticate a request *)

NRes == 2          \* workers resolving concurrently
MaxRes == 2        \* resolves started in a behaviour
MaxTime == 3       \* last tick of the clock
MaxTokens == 2     \* rows of api_tokens
TTL == 2           \* TokenCache.ttl_seconds, in ticks
MaxSize == 3       \* TokenCache.max_size
MaxHits == 2       \* hits of one entry the history tells apart
MaxCalls == 5      \* direct calls of the cache's methods in a behaviour
MaxVerifies == 3   \* calls of ph.verify the history tells apart
MarkerTTL == 1     \* lifetime of a token_last_updated marker, in ticks

PrefixLen == 12    \* token[:12]
SchemeLen == 7     \* auth_header[7:]

Resolvers == 1..NRes
Users == {1}
Null == -1
TokenIds == 1..Len(tokens)

\* Strings are sequences of characters.
Bearer_ == <<"B", "e", "a", "r", "e", "r", " ">>
tok_ == <<"t", "o", "k", "_">>

Min(a, b) == IF a <= b THEN a ELSE b

\* s.startswith(pre)
StartsWith(s, pre) == Len(s) >= Len(pre) /\ SubSeq(s, 1, Len(pre)) = pre

\* s[:n]
Prefix(s, n) == SubSeq(s, 1, Min(n, Len(s)))

\* s[n:]
From(s, n) == SubSeq(s, n + 1, Len(s))

\* Secrets as generate_token makes them: tok_ and a random tail.  SecretA1 and
\* SecretA2 share their first twelve characters, and so does Guess, a secret
\* that is never issued.
SecretA1 == tok_ \o <<"a", "a", "a", "a", "a", "a", "a", "a", "1">>
SecretA2 == tok_ \o <<"a", "a", "a", "a", "a", "a", "a", "a", "2">>
SecretB1 == tok_ \o <<"b", "b", "b", "b", "b", "b", "b", "b", "1">>
Guess == tok_ \o <<"a", "a", "a", "a", "a", "a", "a", "a", "3">>
Opaque == <<"k", "e", "y">>
IssuedSecrets == {SecretA1, SecretA2}

\* PasswordHasher.hash and PasswordHasher.verify: verify returns on a match,
\* raises VerifyMismatchError on a mismatch and InvalidHash on a stored value
\* that is not an Argon2 hash.
Argon2Hash(secret) == [alg |-> "argon2id", of |-> secret]
NotAHash == [alg |-> "none", of |-> << >>]

\* A verifier that reports a malformed hash as a mismatch.
Argon2VerifyLenient(hash, secret) ==
    IF hash.alg = "argon2id" /\ hash.of = secret THEN "ok"
    ELSE "VerifyMismatchError"

Argon2Verify(hash, secret) ==
    IF hash.alg # "argon2id" THEN "InvalidHash"
    ELSE IF hash.of = secret THEN "ok"
    ELSE "VerifyMismatchError"

\* ApiToken.generate_token and ApiTokenSerializer.create: the stored row.
NewToken(u, secret) ==
    [user |-> u, token_prefix |-> Prefix(secret, PrefixLen),
     token_hash |-> Argon2Hash(secret), revoked_at |-> Null,
     last_used_at |-> Null]

\* The test of is_revoked with its sense inverted.
is_revoked_inverted(t) == t.revoked_at = Null

\* ApiToken.is_revoked
is_revoked(t) == t.revoked_at # Null

\* Outcomes of a resolver: a pair (user, token), None, or an exception.
None == [kind |-> "none", user |-> 0, token |-> 0]
Pair(u, t) == [kind |-> "pair", user |-> u, token |-> t]
Error == [kind |-> "error", user |-> 0, token |-> 0]

\* A cache key made of the first twelve characters alone.
CacheKeyPrefixOnly(token) == <<Prefix(token, PrefixLen)>>

\* _get_cache_key: the first twelve characters and a digest of the whole secret.
sha256(s) == <<"sha256", s>>
CacheKey(token) == <<Prefix(token, PrefixLen), sha256(token)>>

\* TokenCache.cache as a sequence of entries, least recently used first.
Keys(c) == {c[i].key : i \in 1..Len(c)}
IndexOf(c, key) == CHOOSE i \in 1..Len(c) : c[i].key = key
Without(c, i) == SubSeq(c, 1, i - 1) \o SubSeq(c, i + 1, Len(c))

\* A cache lookup that reports every key as missing.
TokenCacheGetNeverHits(c, key, t) ==
    [found |-> FALSE, user |-> 0, token |-> 0, cache |-> c]

\* A cache lookup whose hit restamps the entry: a sliding lifetime.
TokenCacheGetSliding(c, key, t) ==
    IF key \in Keys(c)
    THEN LET i == IndexOf(c, key) IN
         IF t - c[i].ts < TTL
         THEN [found |-> TRUE, user |-> c[i].user, token |-> c[i].token,
               cache |-> Without(c, i) \o <<[c[i] EXCEPT !.ts = t]>>]
         ELSE [found |-> FALSE, user |-> 0, token |-> 0, cache |-> Without(c, i)]
    ELSE [found |-> FALSE, user |-> 0, token |-> 0, cache |-> c]

\* TokenCache.get: an entry younger than the ttl is a hit and becomes the most
\* recently used; an older one is deleted.
TokenCacheGet(c, key, t) ==
    IF key \in Keys(c)
    THEN LET i == IndexOf(c, key) IN
         IF t - c[i].ts < TTL
         THEN [found |-> TRUE, user |-> c[i].user, token |-> c[i].token,
               cache |-> Without(c, i) \o <<c[i]>>]
         ELSE [found |-> FALSE, user |-> 0, token |-> 0, cache |-> Without(c, i)]
    ELSE [found |-> FALSE, user |-> 0, token |-> 0, cache |-> c]

\* A cache insert that never removes an entry.
TokenCacheSetUnbounded(c, key, u, tk, t) ==
    LET e == [key |-> key, user |-> u, token |-> tk, ts |-> t]
    IN IF key \in Keys(c)
       THEN [c EXCEPT ![IndexOf(c, key)] = e]
       ELSE Append(c, e)

\* TokenCache.set: at capacity the least recently used entry goes first; an
\* existing key keeps its position in the OrderedDict.
TokenCacheSet(c, key, u, tk, t) ==
    LET c1 == IF Len(c) >= MaxSize THEN Tail(c) ELSE c
        e == [key |-> key, user |-> u, token |-> tk, ts |-> t]
    IN IF key \in Keys(c1)
       THEN [c1 EXCEPT ![IndexOf(c1, key)] = e]
       ELSE Append(c1, e)

\* TokenCache.invalidate of the middleware: self.cache.pop(key, None).
TokenCacheInvalidate(c, key) ==
    IF key \in Keys(c) THEN Without(c, IndexOf(c, key)) ELSE c

\* The keys and outcomes handed to the cache when it is called directly.
CacheKeys == {CacheKey(s) : s \in {SecretA1, SecretA2, SecretB1, Guess}}
CacheValues == {Pair(1, 1)}

\* No call yet; no key has been accessed.
NoCop == [kind |-> "none", key |-> << >>, entry |-> "absent", hits |-> 0,
          found |-> FALSE, present |-> FALSE, full |-> FALSE,
          victim |-> "none"]
NoHist == [calls |-> 0,
           lru |-> << >>,
           ins |-> [k \in CacheKeys |-> Null],
           hits |-> [k \in CacheKeys |-> 0]]

\* The keys of q that are not in S, in q's order.
Drop(q, S) == SelectSeq(q, LAMBDA k : k \notin S)

\* Key k by the time of its last set, if the cache has kept it since.
EntryOf(k) ==
    IF hist.ins[k] = Null THEN "absent"
    ELSE IF now - hist.ins[k] < TTL THEN "alive" ELSE "expired"

\* The keys a call removed, set against the key accessed least recently.
VictimOf(gone) ==
    IF gone = {} THEN "none"
    ELSE IF hist.lru # << >> /\ gone = {Head(hist.lru)} THEN "oldest"
    ELSE "other"


\* _schedule_update_last_used: the row and the marker after the call.
MarkerSet(tk) == marker[tk] # Null /\ now < marker[tk]

ScheduledTokens(tk) ==
    IF MarkerSet(tk) THEN tokens
    ELSE [tokens EXCEPT ![tk].last_used_at = now]

ScheduledMarker(tk) ==
    IF MarkerSet(tk) THEN marker
    ELSE [marker EXCEPT ![tk] = now + MarkerTTL]

\* A worker outside a resolve.  fresh to verifies are history: what the cache
\* held for the key at the call, whether the secret belonged to an eligible
\* credential at the call and at the store lookup, the credentials whose
\* revocation was older than the ttl at the call, and the store lookups and
\* hash verifications the resolve made.
ResIdle ==
    [pc |-> "idle", hdr |-> << >>, tok |-> << >>, cand |-> 0, user |-> 0, token |-> 0,
     fresh |-> FALSE, cached |-> None, validAtCall |-> FALSE,
     validAtLookup |-> {}, late |-> {}, lookups |-> 0, verifies |-> 0,
     fault |-> "none"]

\* The record of the resolve that returned last.
Returned(r, o) ==
    [called |-> TRUE, hdr |-> r.hdr, tok |-> r.tok, out |-> o, fresh |-> r.fresh,
     cached |-> r.cached, validAtCall |-> r.validAtCall,
     validAtLookup |-> r.validAtLookup, late |-> r.late,
     lookups |-> r.lookups, verifies |-> r.verifies, fault |-> r.fault]

NoResolve == [Returned(ResIdle, None) EXCEPT !.called = FALSE]

NoPlain == [called |-> FALSE, header |-> << >>, out |-> None, verifies |-> 0]

\* The caching resolvers: the authentication class and the middleware.
Vias == {"auth", "mw"}

\* The credentials a secret belongs to that a resolver must accept.
ValidFor(secret) ==
    {i \in TokenIds :
        /\ tokens[i].token_prefix = Prefix(secret, PrefixLen)
        /\ tokens[i].token_hash = Argon2Hash(secret)
        /\ tokens[i].revoked_at = Null
        /\ users[tokens[i].user].is_active
        /\ users[tokens[i].user].verified}

\* The credentials revoked longer ago than the ttl.
RevokedLongAgo ==
    {i \in TokenIds :
        tokens[i].revoked_at # Null /\ now > tokens[i].revoked_at + TTL}

\* What the cache holds for a key, read without touching it.
FreshEntries(key) ==
    {i \in 1..Len(tcache) : tcache[i].key = key /\ now - tcache[i].ts < TTL}

OutcomeOf(e) == IF e.user # 0 THEN Pair(e.user, e.token) ELSE None

\* The state after start-up, with one of the caching resolvers installed.
AuthInit ==
    /\ now = 0
    /\ users = [u \in Users |-> [is_active |-> TRUE, verified |-> TRUE]]
    /\ tokens = << >>
    /\ installed \in Vias
    /\ tcache = << >>
    /\ marker = [i \in 1..MaxTokens |-> Null]
    /\ res = [p \in Resolvers |-> ResIdle]
    /\ nRes = 0
    /\ last = NoResolve
    /\ plain = NoPlain
    /\ cop = NoCop
    /\ hist = NoHist
    /\ req = NoReq
    /\ lock = 0

\* The state no credential operation has touched.
AuthIdle == AuthInit /\ installed = "auth"

\* time.time() advances.
Tick ==
    /\ now < MaxTime
    /\ now' = now + 1
    /\ UNCHANGED <<users, tokens, installed, tcache, marker, res, nRes, last, plain>>
    /\ UNCHANGED <<cop, hist, req, lock>>
    /\ UNCHANGED ledgerVars

\* ApiTokenView.post: a verified, active user creates a credential.  The
\* secret comes from secrets.token_urlsafe(32): no secret is drawn twice.
Issue(u, secret) ==
    /\ Len(tokens) < MaxTokens
    /\ \A i \in TokenIds : tokens[i].token_hash # Argon2Hash(secret)
    /\ users[u].is_active /\ users[u].verified
    /\ tokens' = Append(tokens, NewToken(u, secret))
    /\ UNCHANGED <<now, users, installed, tcache, marker, res, nRes, last, plain>>
    /\ UNCHANGED <<cop, hist, req, lock>>
    /\ UNCHANGED ledgerVars

\* ApiTokenRevokeView.perform_destroy: ApiToken.revoke stamps the row.
Revoke(i) ==
    /\ i \in TokenIds
    /\ tokens' = [tokens EXCEPT ![i].revoked_at = now]
    /\ UNCHANGED <<now, users, installed, tcache, marker, res, nRes, last, plain>>
    /\ UNCHANGED <<cop, hist, req, lock>>
    /\ UNCHANGED ledgerVars

\* An authenticated, verified user who owns none of the credentials.
OtherUser == 2
Principals == Users \cup {OtherUser}

\* A queryset that is not filtered by owner.
get_queryset_all(u) == TokenIds

\* ApiTokenRevokeView.get_queryset: ApiToken.objects.filter(user=request.user)
get_queryset(u) == {i \in TokenIds : tokens[i].user = u}

\* A save that writes every field of the instance, whatever update_fields
\* names.
save_every_field(tks, i, inst, fields) == [tks EXCEPT ![i] = inst]

\* Model.save(update_fields=fields) on an instance of row i: an UPDATE of
\* the named columns, by primary key, with the values of the instance.
save(tks, i, inst, fields) ==
    [tks EXCEPT ![i] = [f \in DOMAIN tks[i] |->
                          IF f \in fields THEN inst[f] ELSE tks[i][f]]]

\* The ApiToken instance a resolve holds when it reaches
\* _schedule_update_last_used, fresh from its query or out of the cache: the
\* instance passed the is_revoked test when it was loaded, so its revoked_at
\* is None however the row stands now.
LoadedInstance(i) == [tokens[i] EXCEPT !.revoked_at = Null]

\* A revoke that clears the stamp of a credential that carries one.
revoke_toggles(t) ==
    [t EXCEPT !.revoked_at = IF @ = Null THEN now ELSE Null]

\* ApiToken.revoke: revoked_at = datetime.now(UTC), saved with
\* update_fields=["revoked_at"]
revoke(t) == [t EXCEPT !.revoked_at = now]

\* ApiToken.update_last_used: last_used_at = datetime.now(UTC), saved with
\* update_fields=["last_used_at"]
update_last_used(t) == [t EXCEPT !.last_used_at = now]

\* DELETE on the revoke endpoint by principal u for the credential with id
\* i: DestroyAPIView.destroy takes the object from get_queryset (404 when
\* it is not there), calls perform_destroy, which calls instance.revoke(),
\* and answers 204.
RevokeRequest(u, i) ==
    /\ IF i \in get_queryset(u)
       THEN /\ tokens' = save(tokens, i, revoke(tokens[i]), {"revoked_at"})
            /\ req' = [called |-> TRUE, principal |-> u, token |-> i,
                       was |-> tokens[i].revoked_at, code |-> 204]
       ELSE /\ req' = [called |-> TRUE, principal |-> u, token |-> i,
                       was |-> IF i \in TokenIds THEN tokens[i].revoked_at ELSE Null,
                       code |-> 404]
            /\ UNCHANGED tokens
    /\ UNCHANGED <<now, users, installed, tcache, marker, res, nRes, last, plain>>
    /\ UNCHANGED <<cop, hist, lock>>
    /\ UNCHANGED ledgerVars

\* UserAdmin.deactivate_users and activate_users.
SetActive(u, b) ==
    /\ users[u].is_active # b
    /\ users' = [users EXCEPT ![u].is_active = b]
    /\ UNCHANGED <<now, tokens, installed, tcache, marker, res, nRes, last, plain>>
    /\ UNCHANGED <<cop, hist, req, lock>>
    /\ UNCHANGED ledgerVars

\* A client presents what it likes, but a secret generate_token draws only
\* once it has been issued.
Known(secret) ==
    secret \in IssuedSecrets =>
        \E i \in TokenIds : tokens[i].token_hash = Argon2Hash(secret)

\* The checks a caching resolver makes before it consults its cache.
\* authenticate: a Bearer header carrying a tok_ secret; the middleware: a
\* Bearer header carrying anything.
Structural(via, h) ==
    IF via = "auth"
    THEN h # << >> /\ StartsWith(h, Bearer_) /\ StartsWith(From(h, SchemeLen), tok_)
    ELSE StartsWith(h, Bearer_) /\ From(h, SchemeLen) # << >>

\* Whether a cache hit schedules the last-used update: authenticate asks for
\* the cached credential, the middleware for the cached user first.
TouchesOnHit(via, g) ==
    IF via = "auth" THEN g.token # 0 ELSE g.user # 0 /\ g.token # 0

\* A resolve up to and including its cache lookup:
\* OptimizedBearerTokenAuthentication.authenticate and
\* OptimizedTokenAuthMiddleware.__call__ with _authenticate_token_cached.
ResolveBegin(p, h) ==
    /\ res[p].pc = "idle"
    /\ Known(From(h, SchemeLen))
    /\ nRes < MaxRes
    /\ nRes' = nRes + 1
    /\ LET token == From(h, SchemeLen)
           key == CacheKey(token)
           g == TokenCacheGet(tcache, key, now)
           fr == FreshEntries(key)
           r0 == [ResIdle EXCEPT !.hdr = h, !.tok = token, !.late = RevokedLongAgo,
                      !.validAtCall = (ValidFor(token) # {})]
           r1 == [r0 EXCEPT !.fresh = (fr # {}),
                      !.cached = IF fr = {} THEN None
                                 ELSE OutcomeOf(tcache[CHOOSE i \in fr : TRUE])]
       IN  IF ~Structural(installed, h)
           THEN /\ last' = Returned(r0, None)
                /\ UNCHANGED <<res, tcache, tokens, marker>>
           ELSE /\ tcache' = g.cache
                /\ IF g.found
                   THEN /\ last' = Returned(r1, IF g.user # 0
                                               THEN Pair(g.user, g.token) ELSE None)
                        /\ tokens' = IF TouchesOnHit(installed, g)
                                     THEN ScheduledTokens(g.token) ELSE tokens
                        /\ marker' = IF TouchesOnHit(installed, g)
                                     THEN ScheduledMarker(g.token) ELSE marker
                        /\ UNCHANGED res
                   ELSE /\ res' = [res EXCEPT ![p] = [r1 EXCEPT !.pc = "lookup"]]
                        /\ UNCHANGED <<tokens, marker, last>>
    /\ UNCHANGED <<now, users, installed, plain>>
    /\ UNCHANGED <<cop, hist, req, lock>>
    /\ UNCHANGED ledgerVars

\* Quick validation checks that let every row through.
QuickRejectNothing(t) == FALSE

\* The quick validation checks on the row and its owner as the query read them.
QuickReject(t) ==
    \/ is_revoked(t)
    \/ ~users[t.user].is_active
    \/ ~users[t.user].verified

\* _authenticate_token up to the end of its query: the format check of the
\* middleware, .get(token_prefix=token[:12]) and the quick validation checks.
\* MultipleObjectsReturned leaves the resolver as an exception.
Lookup(p) ==
    /\ res[p].pc = "lookup"
    /\ LET r == res[p]
           m == {i \in TokenIds : tokens[i].token_prefix = Prefix(r.tok, PrefixLen)}
           q == [r EXCEPT !.lookups = @ + 1,
                          !.validAtLookup = ValidFor(r.tok)]
       IN  IF installed = "mw" /\ ~StartsWith(r.tok, tok_)
           THEN res' = [res EXCEPT ![p] = [r EXCEPT !.pc = "set"]] /\ UNCHANGED last
           ELSE IF m = {}
           THEN res' = [res EXCEPT ![p] = [q EXCEPT !.pc = "set"]] /\ UNCHANGED last
           ELSE IF Cardinality(m) > 1
           THEN res' = [res EXCEPT ![p] = ResIdle] /\ last' = Returned(q, Error)
           ELSE LET i == CHOOSE i \in m : TRUE IN
                /\ res' = [res EXCEPT ![p] =
                       IF QuickReject(tokens[i]) THEN [q EXCEPT !.pc = "set"]
                       ELSE [q EXCEPT !.pc = "verify", !.cand = i]]
                /\ UNCHANGED last
    /\ UNCHANGED <<now, users, tokens, installed, tcache, marker, nRes, plain>>
    /\ UNCHANGED <<cop, hist, req, lock>>
    /\ UNCHANGED ledgerVars

\* The query of _authenticate_token fails with a database error, which is no
\* ApiToken.DoesNotExist: the exception leaves the resolver before
\* _token_cache.set is reached.
LookupFails(p) ==
    /\ res[p].pc = "lookup"
    /\ ~(installed = "mw" /\ ~StartsWith(res[p].tok, tok_))
    /\ res' = [res EXCEPT ![p] = ResIdle]
    /\ last' = Returned([res[p] EXCEPT !.lookups = @ + 1, !.fault = "store"], Error)
    /\ UNCHANGED <<now, users, tokens, installed, tcache, marker, nRes, plain>>
    /\ UNCHANGED <<cop, hist, req, lock>>
    /\ UNCHANGED ledgerVars

\* ph.verify(api_token.token_hash, token) on the row the query returned.
\* InvalidHash leaves the resolver as an exception.
Verify(p) ==
    /\ res[p].pc = "verify"
    /\ LET r == res[p]
           v == Argon2Verify(tokens[r.cand].token_hash, r.tok)
           q == [r EXCEPT !.verifies = @ + 1,
                          !.fault = IF tokens[r.cand].token_hash.alg = "argon2id"
                                    THEN @ ELSE "hash"]
       IN  IF v = "ok"
           THEN /\ res' = [res EXCEPT ![p] =
                       [q EXCEPT !.pc = "set", !.user = tokens[r.cand].user,
                                 !.token = r.cand]]
                /\ UNCHANGED last
           ELSE IF v = "VerifyMismatchError"
           THEN res' = [res EXCEPT ![p] = [q EXCEPT !.pc = "set"]] /\ UNCHANGED last
           ELSE res' = [res EXCEPT ![p] = ResIdle] /\ last' = Returned(q, Error)
    /\ UNCHANGED <<now, users, tokens, installed, tcache, marker, nRes, plain>>
    /\ UNCHANGED <<cop, hist, req, lock>>
    /\ UNCHANGED ledgerVars

\* _token_cache.set with the result, positive or negative, and the return.
CacheSet(p) ==
    /\ res[p].pc = "set"
    /\ LET r == res[p]
           ok == r.user # 0 /\ r.token # 0
       IN  /\ tcache' = TokenCacheSet(tcache, CacheKey(r.tok), r.user, r.token, now)
           /\ last' = Returned(r, IF ok THEN Pair(r.user, r.token) ELSE None)
           /\ res' = [res EXCEPT ![p] = ResIdle]
           /\ tokens' = IF ok THEN ScheduledTokens(r.token) ELSE tokens
           /\ marker' = IF ok THEN ScheduledMarker(r.token) ELSE marker
    /\ UNCHANGED <<now, users, installed, nRes, plain>>
    /\ UNCHANGED <<cop, hist, req, lock>>
    /\ UNCHANGED ledgerVars

\* The resolve statement by statement: the same resolvers, with
\* _schedule_update_last_used as the three calls it makes.

\* authenticate / __call__ up to the cache lookup; a hit on an entry with a
\* credential goes on to _schedule_update_last_used before it returns.
Authenticate(p, h) ==
    /\ res[p].pc = "idle"
    /\ Known(From(h, SchemeLen))
    /\ nRes < MaxRes
    /\ nRes' = nRes + 1
    /\ LET token == From(h, SchemeLen)
           key == CacheKey(token)
           g == TokenCacheGet(tcache, key, now)
           fr == FreshEntries(key)
           r0 == [ResIdle EXCEPT !.hdr = h, !.tok = token, !.late = RevokedLongAgo,
                      !.validAtCall = (ValidFor(token) # {})]
           r1 == [r0 EXCEPT !.fresh = (fr # {}),
                      !.cached = IF fr = {} THEN None
                                 ELSE OutcomeOf(tcache[CHOOSE i \in fr : TRUE])]
       IN  IF ~Structural(installed, h)
           THEN /\ last' = Returned(r0, None)
                /\ UNCHANGED <<res, tcache>>
           ELSE /\ tcache' = g.cache
                /\ IF g.found /\ TouchesOnHit(installed, g)
                   THEN /\ res' = [res EXCEPT ![p] =
                               [r1 EXCEPT !.pc = "touch", !.user = g.user,
                                          !.token = g.token]]
                        /\ UNCHANGED last
                   ELSE IF g.found
                   THEN /\ last' = Returned(r1, IF g.user # 0
                                               THEN Pair(g.user, g.token) ELSE None)
                        /\ UNCHANGED res
                   ELSE /\ res' = [res EXCEPT ![p] = [r1 EXCEPT !.pc = "lookup"]]
                        /\ UNCHANGED last
    /\ UNCHANGED <<now, users, tokens, installed, marker, plain>>
    /\ UNCHANGED <<cop, hist, req, lock>>
    /\ UNCHANGED ledgerVars

\* _token_cache.set with the result; a pair goes on to
\* _schedule_update_last_used, None is returned.
CacheSetResult(p) ==
    /\ res[p].pc = "set"
    /\ LET r == res[p]
           ok == r.user # 0 /\ r.token # 0
       IN  /\ tcache' = TokenCacheSet(tcache, CacheKey(r.tok), r.user, r.token, now)
           /\ IF ok
              THEN /\ res' = [res EXCEPT ![p].pc = "touch"]
                   /\ UNCHANGED last
              ELSE /\ res' = [res EXCEPT ![p] = ResIdle]
                   /\ last' = Returned(r, None)
    /\ UNCHANGED <<now, users, tokens, installed, marker, nRes, plain>>
    /\ UNCHANGED <<cop, hist, req, lock>>
    /\ UNCHANGED ledgerVars

\* _schedule_update_last_used: if not cache.get(cache_key).  With the marker
\* set the resolve returns the pair.
TouchGet(p) ==
    /\ res[p].pc = "touch"
    /\ LET r == res[p] IN
        IF MarkerSet(r.token)
        THEN /\ res' = [res EXCEPT ![p] = ResIdle]
             /\ last' = Returned(r, Pair(r.user, r.token))
        ELSE /\ res' = [res EXCEPT ![p].pc = "write"]
             /\ UNCHANGED last
    /\ UNCHANGED <<now, users, tokens, installed, tcache, marker, nRes, plain>>
    /\ UNCHANGED <<cop, hist, req, lock>>
    /\ UNCHANGED ledgerVars

\* _schedule_update_last_used: api_token.update_last_used()
TouchWrite(p) ==
    /\ res[p].pc = "write"
    /\ tokens' = save(tokens, res[p].token,
                      update_last_used(LoadedInstance(res[p].token)),
                      {"last_used_at"})
    /\ res' = [res EXCEPT ![p].pc = "mark"]
    /\ UNCHANGED <<now, users, installed, tcache, marker, nRes, last, plain>>
    /\ UNCHANGED <<cop, hist, req, lock>>
    /\ UNCHANGED ledgerVars

\* _schedule_update_last_used: cache.set(cache_key, True, 60); the resolve
\* returns the pair.
TouchMark(p) ==
    /\ res[p].pc = "mark"
    /\ LET r == res[p] IN
        /\ marker' = [marker EXCEPT ![r.token] = now + MarkerTTL]
        /\ res' = [res EXCEPT ![p] = ResIdle]
        /\ last' = Returned(r, Pair(r.user, r.token))
    /\ UNCHANGED <<now, users, tokens, installed, tcache, nRes, plain>>
    /\ UNCHANGED <<cop, hist, req, lock>>
    /\ UNCHANGED ledgerVars

\* The next call of _schedule_update_last_used raises: cache.get or
\* cache.set (the cache backend) or update_last_used (the database).  No
\* handler stands between the call and the caller of the resolver.
TouchRaises(p) ==
    /\ res[p].pc \in {"touch", "write", "mark"}
    /\ res' = [res EXCEPT ![p] = ResIdle]
    /\ last' = Returned([res[p] EXCEPT
                            !.fault = IF res[p].pc = "write" THEN "touch"
                                      ELSE "marker"], Error)
    /\ UNCHANGED <<now, users, tokens, installed, tcache, marker, nRes, plain>>
    /\ UNCHANGED <<cop, hist, req, lock>>
    /\ UNCHANGED ledgerVars

\* TokenCache.get(key) called at time.time() = now. The history keeps, per
\* key, the time of its last set, the hits since, and the order of the keys
\* by their last access (set or hit).
CacheGetOp(k) ==
    /\ hist.calls < MaxCalls
    /\ LET g == TokenCacheGet(tcache, k, now)
           gone == Keys(tcache) \ Keys(g.cache)
       IN /\ tcache' = g.cache
          /\ cop' = [kind |-> "get", key |-> k, entry |-> EntryOf(k),
                     hits |-> hist.hits[k], found |-> g.found,
                     present |-> k \in Keys(tcache), full |-> Len(tcache) >= MaxSize,
                     victim |-> VictimOf(gone)]
          /\ hist' = [calls |-> hist.calls + 1,
                      lru |-> Drop(hist.lru, gone \cup {k})
                                \o (IF g.found THEN <<k>> ELSE << >>),
                      ins |-> [j \in CacheKeys |->
                                 IF j \in gone THEN Null ELSE hist.ins[j]],
                      hits |-> [j \in CacheKeys |->
                                  IF j \in gone THEN 0
                                  ELSE IF j = k /\ g.found
                                       THEN Min(hist.hits[j] + 1, MaxHits)
                                       ELSE hist.hits[j]]]
    /\ UNCHANGED <<now, users, tokens, installed, marker, res, nRes, last, plain, req, lock>>
    /\ UNCHANGED ledgerVars

\* TokenCache.set(key, user, token) called at time.time() = now.
CacheSetOp(k, v) ==
    /\ hist.calls < MaxCalls
    /\ LET c2 == TokenCacheSet(tcache, k, v.user, v.token, now)
           gone == Keys(tcache) \ Keys(c2)
       IN /\ tcache' = c2
          /\ cop' = [kind |-> "set", key |-> k, entry |-> EntryOf(k),
                     hits |-> hist.hits[k], found |-> FALSE,
                     present |-> k \in Keys(tcache), full |-> Len(tcache) >= MaxSize,
                     victim |-> VictimOf(gone)]
          /\ hist' = [calls |-> hist.calls + 1,
                      lru |-> Drop(hist.lru, gone \cup {k}) \o <<k>>,
                      ins |-> [j \in CacheKeys |->
                                 IF j = k THEN now
                                 ELSE IF j \in gone THEN Null ELSE hist.ins[j]],
                      hits |-> [j \in CacheKeys |->
                                  IF j = k \/ j \in gone THEN 0 ELSE hist.hits[j]]]
    /\ UNCHANGED <<now, users, tokens, installed, marker, res, nRes, last, plain, req, lock>>
    /\ UNCHANGED ledgerVars

\* TokenCache.invalidate(key) of the middleware's cache.
CacheInvalidateOp(k) ==
    /\ hist.calls < MaxCalls
    /\ installed = "mw"
    /\ LET c2 == TokenCacheInvalidate(tcache, k)
           gone == Keys(tcache) \ Keys(c2)
       IN /\ tcache' = c2
          /\ cop' = [kind |-> "invalidate", key |-> k, entry |-> EntryOf(k), hits |-> hist.hits[k], found |-> FALSE,
                     present |-> k \in Keys(tcache), full |-> Len(tcache) >= MaxSize,
                     victim |-> VictimOf(gone)]
          /\ hist' = [calls |-> hist.calls + 1,
                      lru |-> Drop(hist.lru, gone),
                      ins |-> [j \in CacheKeys |->
                                 IF j \in gone THEN Null ELSE hist.ins[j]],
                      hits |-> [j \in CacheKeys |->
                                  IF j \in gone THEN 0 ELSE hist.hits[j]]]
    /\ UNCHANGED <<now, users, tokens, installed, marker, res, nRes, last, plain, req, lock>>
    /\ UNCHANGED ledgerVars

\* BearerTokenAuthentication.authenticate, the resolver without a cache.
BearerAuthenticate(h) ==
    IF h = << >> \/ ~StartsWith(h, Bearer_) THEN None
    ELSE LET token == From(h, SchemeLen)
             m == {i \in TokenIds : tokens[i].token_prefix = Prefix(token, PrefixLen)}
         IN  IF ~StartsWith(token, tok_) THEN None
             ELSE IF m = {} THEN None
             ELSE IF Cardinality(m) > 1 THEN Error
             ELSE LET i == CHOOSE i \in m : TRUE
                      v == Argon2Verify(tokens[i].token_hash, token)
                  IN  IF is_revoked(tokens[i]) THEN None
                      ELSE IF ~users[tokens[i].user].is_active THEN None
                      ELSE IF ~users[tokens[i].user].verified THEN None
                      ELSE IF v = "VerifyMismatchError" THEN None
                      ELSE IF v = "InvalidHash" THEN Error
                      ELSE Pair(tokens[i].user, i)

\* The calls of ph.verify that BearerTokenAuthentication.authenticate makes
\* for header h: one when a single row matches the prefix and passes the
\* checks on the row and its owner, none otherwise.
BearerVerifies(h) ==
    IF h = << >> \/ ~StartsWith(h, Bearer_) THEN 0
    ELSE LET token == From(h, SchemeLen)
             m == {i \in TokenIds : tokens[i].token_prefix = Prefix(token, PrefixLen)}
         IN  IF ~StartsWith(token, tok_) \/ Cardinality(m) # 1 THEN 0
             ELSE LET i == CHOOSE i \in m : TRUE
                  IN  IF \/ is_revoked(tokens[i])
                         \/ ~users[tokens[i].user].is_active
                         \/ ~users[tokens[i].user].verified
                      THEN 0 ELSE 1

\* A request through BearerTokenAuthentication: on success update_last_used
\* stamps the row.
PlainResolve(h) ==
    /\ LET o == BearerAuthenticate(h) IN
        /\ plain' = [called |-> TRUE, header |-> h, out |-> o,
                      verifies |-> Min(plain.verifies + BearerVerifies(h),
                                       MaxVerifies)]
        /\ tokens' = IF o.kind = "pair"
                     THEN [tokens EXCEPT ![o.token].last_used_at = now]
                     ELSE tokens
    /\ UNCHANGED <<now, users, installed, tcache, marker, res, nRes, last>>
    /\ UNCHANGED <<cop, hist, req, lock>>
    /\ UNCHANGED ledgerVars

\* A post that never tests the outcome of authentication.
is_authenticated_always(o) == TRUE

\* SolveView.post, core/views.py 82-86: request.user and
\* request.user.is_authenticated; a request that authenticate() gave no
\* pair carries AnonymousUser and is answered 401 before the image is read.
is_authenticated(o) == o.kind = "pair"

\* A request to SolveView: authentication_classes = [BearerTokenAuthentication]
\* resolves the header before post runs; post answers 401 when no user was
\* resolved, and otherwise solves the image and starts the metering.
SolveRequest(p, h, status) ==
    /\ proc[p].pc = "idle"
    /\ nOps < MaxOps
    /\ nOps' = nOps + 1
    /\ LET o == BearerAuthenticate(h) IN
        /\ plain' = [called |-> TRUE, header |-> h, out |-> o,
                      verifies |-> Min(plain.verifies + BearerVerifies(h),
                                       MaxVerifies)]
        /\ tokens' = IF o.kind = "pair"
                     THEN [tokens EXCEPT ![o.token].last_used_at = now]
                     ELSE tokens
        /\ proc' = IF is_authenticated(o)
                   THEN [proc EXCEPT ![p] =
                           [pc |-> "clear", op |-> "solve", today |-> month,
                            bp |-> NoRow, status |-> status, raced |-> FALSE]]
                   ELSE proc
        /\ answer' = IF is_authenticated(o) THEN answer
                     ELSE [n |-> answer.n + 1, op |-> "solve", status |-> "none",
                           failed |-> "none",
                           code |-> IF o = Error THEN 500 ELSE 401]
    /\ UNCHANGED <<month, rows, logs, tx, straddled, returned, metered, overlap, marked>>
    /\ UNCHANGED <<now, users, installed, tcache, marker, res, nRes, last, cop, hist, req, lock>>

\* The state no ledger operation has touched.
LedgerIdle ==
    /\ month = 1
    /\ rows = << >>
    /\ logs = EmptyBag
    /\ tx = [p \in Procs |-> NoTx]
    /\ proc = [p \in Procs |-> Idle]
    /\ nOps = 0
    /\ straddled = FALSE
    /\ returned = [m \in Months |-> {}]
    /\ metered = [m \in Months |-> [solve |-> 0, test |-> 0]]
    /\ overlap = FALSE
    /\ marked = NoMark
    /\ answer = NoAnswer

\* Authorization headers presented to the resolvers.
Headers ==
    { Bearer_ \o SecretA1,
      Bearer_ \o SecretA2,
      Bearer_ \o SecretB1,
      Bearer_ \o Opaque,
      << >> }

\* The header variations of the test suite.
PlainHeaders ==
    Headers \cup
    { <<"b", "e", "a", "r", "e", "r", " ">> \o SecretA1,
      <<"B", "E", "A", "R", "E", "R", " ">> \o SecretA1,
      Bearer_ \o <<" ">> \o SecretA1,
      <<" ">> \o Bearer_ \o SecretA1,
      <<"B", "a", "s", "i", "c", " ">> \o SecretA1,
      SecretA1,
      Bearer_,
      Bearer_ \o tok_,
      <<"B", "e", "a", "r", "e", "r">> }

\* The secrets issued share a fingerprint; a guess with that fingerprint and
\* a secret of another format are presented next to them.
CacheHeaders ==
    {Bearer_ \o SecretA1, Bearer_ \o SecretA2, Bearer_ \o Guess, Bearer_ \o Opaque}

CacheNext ==
    \/ Tick
    \/ \E u \in Users, s \in IssuedSecrets : Issue(u, s)
    \/ \E i \in 1..MaxTokens : Revoke(i)
    \/ \E u \in Users, b \in BOOLEAN : SetActive(u, b)
    \/ \E p \in Resolvers, h \in CacheHeaders : ResolveBegin(p, h)
    \/ \E p \in Resolvers : Lookup(p)
    \/ \E p \in Resolvers : Verify(p)
    \/ \E p \in Resolvers : CacheSet(p)

\* The credentials after start-up, next to a ledger nobody uses.
CacheInit == LedgerIdle /\ AuthInit

SpecCache == CacheInit /\ [][CacheNext]_vars

----------------------------------------------------------------------------
(* The resolve with TokenCache.lock: get and set run their bodies inside  *)
(* with self.lock (core/authentication_optimized.py 36-58); authenticate  *)
(* calls _authenticate_token between them, outside both (85-100)          *)

\* A with block that keeps the lock when it is left.
ReleaseKeeps(l, p) == l

\* Lock.__exit__ at the end of the with block.
Release(l, p) == IF l = p THEN 0 ELSE l

\* authenticate / __call__ up to the call of _token_cache.get: a header
\* that fails the structural tests returns None before the cache is used.
LockedBegin(p, h) ==
    /\ res[p].pc = "idle"
    /\ Known(From(h, SchemeLen))
    /\ nRes < MaxRes
    /\ nRes' = nRes + 1
    /\ LET token == From(h, SchemeLen)
           r0 == [ResIdle EXCEPT !.hdr = h, !.tok = token, !.late = RevokedLongAgo,
                      !.validAtCall = (ValidFor(token) # {})]
       IN  IF ~Structural(installed, h)
           THEN /\ last' = Returned(r0, None)
                /\ UNCHANGED res
           ELSE /\ res' = [res EXCEPT ![p] = [r0 EXCEPT !.pc = "enter"]]
                /\ UNCHANGED last
    /\ UNCHANGED <<now, users, tokens, installed, tcache, marker, plain>>
    /\ UNCHANGED <<cop, hist, req, lock>>
    /\ UNCHANGED ledgerVars

\* TokenCache.get: with self.lock is entered once the lock is free.
GetAcquire(p) ==
    /\ res[p].pc = "enter"
    /\ lock = 0
    /\ lock' = p
    /\ res' = [res EXCEPT ![p].pc = "get"]
    /\ UNCHANGED <<now, users, tokens, installed, tcache, marker, nRes, last, plain>>
    /\ UNCHANGED <<cop, hist, req>>
    /\ UNCHANGED ledgerVars

\* TokenCache.get: the body and the end of the with block.  A hit returns
\* after _schedule_update_last_used, a miss goes on to _authenticate_token.
GetRelease(p) ==
    /\ res[p].pc = "get"
    /\ lock = p
    /\ lock' = Release(lock, p)
    /\ LET r == res[p]
           key == CacheKey(r.tok)
           g == TokenCacheGet(tcache, key, now)
           fr == FreshEntries(key)
           r1 == [r EXCEPT !.fresh = (fr # {}),
                     !.cached = IF fr = {} THEN None
                                ELSE OutcomeOf(tcache[CHOOSE i \in fr : TRUE])]
       IN  /\ tcache' = g.cache
           /\ IF g.found
              THEN /\ last' = Returned(r1, IF g.user # 0
                                          THEN Pair(g.user, g.token) ELSE None)
                   /\ tokens' = IF TouchesOnHit(installed, g)
                                THEN ScheduledTokens(g.token) ELSE tokens
                   /\ marker' = IF TouchesOnHit(installed, g)
                                THEN ScheduledMarker(g.token) ELSE marker
                   /\ res' = [res EXCEPT ![p] = ResIdle]
              ELSE /\ res' = [res EXCEPT ![p] = [r1 EXCEPT !.pc = "lookup"]]
                   /\ UNCHANGED <<tokens, marker, last>>
    /\ UNCHANGED <<now, users, installed, nRes, plain>>
    /\ UNCHANGED <<cop, hist, req>>
    /\ UNCHANGED ledgerVars

\* TokenCache.set: with self.lock is entered once the lock is free.
SetAcquire(p) ==
    /\ res[p].pc = "set"
    /\ lock = 0
    /\ lock' = p
    /\ res' = [res EXCEPT ![p].pc = "put"]
    /\ UNCHANGED <<now, users, tokens, installed, tcache, marker, nRes, last, plain>>
    /\ UNCHANGED <<cop, hist, req>>
    /\ UNCHANGED ledgerVars

\* TokenCache.set: the body and the end of the with block; authenticate
\* then schedules the touch of a pair and returns.
SetRelease(p) ==
    /\ res[p].pc = "put"
    /\ lock = p
    /\ lock' = Release(lock, p)
    /\ LET r == res[p]
           ok == r.user # 0 /\ r.token # 0
       IN  /\ tcache' = TokenCacheSet(tcache, CacheKey(r.tok), r.user, r.token, now)
           /\ last' = Returned(r, IF ok THEN Pair(r.user, r.token) ELSE None)
           /\ res' = [res EXCEPT ![p] = ResIdle]
           /\ tokens' = IF ok THEN ScheduledTokens(r.token) ELSE tokens
           /\ marker' = IF ok THEN ScheduledMarker(r.token) ELSE marker
    /\ UNCHANGED <<now, users, installed, nRes, plain>>
    /\ UNCHANGED <<cop, hist, req>>
    /\ UNCHANGED ledgerVars

LockNext ==
    \/ Tick
    \/ \E u \in Users, s \in IssuedSecrets : Issue(u, s)
    \/ \E p \in Resolvers, h \in CacheHeaders : LockedBegin(p, h)
    \/ \E p \in Resolvers : GetAcquire(p)
    \/ \E p \in Resolvers : GetRelease(p)
    \/ \E p \in Resolvers : Lookup(p)
    \/ \E p \in Resolvers : Verify(p)
    \/ \E p \in Resolvers : SetAcquire(p)
    \/ \E p \in Resolvers : SetRelease(p)

SpecLock == CacheInit /\ [][LockNext]_vars

\* One credential, its owner and another principal at the revoke endpoint,
\* and resolves of its secret taken statement by statement.
TouchHeaders == {Bearer_ \o SecretA1}

TouchNext ==
    \/ Tick
    \/ \E u \in Users, s \in {SecretA1} : Issue(u, s)
    \/ \E u \in Principals, i \in 1..MaxTokens : RevokeRequest(u, i)
    \/ \E p \in Resolvers, h \in TouchHeaders : Authenticate(p, h)
    \/ \E p \in Resolvers : Lookup(p)
    \/ \E p \in Resolvers : Verify(p)
    \/ \E p \in Resolvers : CacheSetResult(p)
    \/ \E p \in Resolvers : TouchGet(p)
    \/ \E p \in Resolvers : TouchWrite(p)
    \/ \E p \in Resolvers : TouchMark(p)
    \/ \E p \in Resolvers : TouchRaises(p)

SpecTouch == CacheInit /\ [][TouchNext]_vars

\* The cache on its own: calls of its methods in any order, as the lock
\* serialises them, while the clock advances.
TokenCacheNext ==
    \/ Tick
    \/ \E k \in CacheKeys : CacheGetOp(k)
    \/ \E k \in CacheKeys, v \in CacheValues : CacheSetOp(k, v)
    \/ \E k \in CacheKeys : CacheInvalidateOp(k)

SpecTokenCache == CacheInit /\ [][TokenCacheNext]_vars

\* Stores the uncached resolver can meet: rows that are revoked or not, whose
\* hash is that of the secret, of another secret, or no hash at all, one or
\* two of them under one fingerprint, owned by users of every standing.
StoredRows ==
    { [NewToken(1, s) EXCEPT !.token_hash = h, !.revoked_at = r] :
        s \in {SecretA1}, h \in {Argon2Hash(SecretA1), Argon2Hash(SecretA2), NotAHash},
        r \in {Null, 0} }
    \cup {NewToken(1, SecretB1)}

PlainInit ==
    /\ LedgerIdle
    /\ now = 1
    /\ users \in [Users -> [is_active : BOOLEAN, verified : BOOLEAN]]
    /\ tokens \in UNION {[1..n -> StoredRows] : n \in 0..MaxTokens}
    /\ installed = "auth"
    /\ tcache = << >>
    /\ marker = [i \in 1..MaxTokens |-> Null]
    /\ res = [p \in Resolvers |-> ResIdle]
    /\ nRes = 0
    /\ last = NoResolve
    /\ plain = NoPlain
    /\ cop = NoCop
    /\ hist = NoHist
    /\ req = NoReq
    /\ lock = 0

PlainNext == \E h \in PlainHeaders : PlainResolve(h)

SpecPlain == PlainInit /\ [][PlainNext]_vars

\* The caching resolvers over such stores, with a database that can fail.
FailureInit ==
    /\ LedgerIdle
    /\ now = 1
    /\ users = [u \in Users |-> [is_active |-> TRUE, verified |-> TRUE]]
    /\ tokens \in UNION {[1..n -> StoredRows] : n \in 0..MaxTokens}
    /\ installed \in Vias
    /\ tcache = << >>
    /\ marker = [i \in 1..MaxTokens |-> Null]
    /\ res = [p \in Resolvers |-> ResIdle]
    /\ nRes = 0
    /\ last = NoResolve
    /\ plain = NoPlain
    /\ cop = NoCop
    /\ hist = NoHist
    /\ req = NoReq
    /\ lock = 0

FailureNext ==
    \/ Tick
    \/ \E p \in Resolvers, h \in CacheHeaders : ResolveBegin(p, h)
    \/ \E p \in Resolvers : Lookup(p)
    \/ \E p \in Resolvers : LookupFails(p)
    \/ \E p \in Resolvers : Verify(p)
    \/ \E p \in Resolvers : CacheSet(p)

SpecFailure == FailureInit /\ [][FailureNext]_vars

\* The caching authentication class over a store that nothing changes but
\* the resolver's own last-used stamps: the stores of PlainInit, owners of
\* every standing, well-formed and malformed headers, and a clock that lets
\* cached entries age and expire.
EquivHeaders ==
    Headers \cup
    { Bearer_ \o Guess,
      <<"b", "e", "a", "r", "e", "r", " ">> \o SecretA1,
      SecretA1,
      Bearer_ \o tok_ }

EquivInit ==
    /\ LedgerIdle
    /\ now = 0
    /\ users \in [Users -> [is_active : BOOLEAN, verified : BOOLEAN]]
    /\ tokens \in UNION {[1..n -> StoredRows] : n \in 0..MaxTokens}
    /\ installed = "auth"
    /\ tcache = << >>
    /\ marker = [i \in 1..MaxTokens |-> Null]
    /\ res = [p \in Resolvers |-> ResIdle]
    /\ nRes = 0
    /\ last = NoResolve
    /\ plain = NoPlain
    /\ cop = NoCop
    /\ hist = NoHist
    /\ req = NoReq
    /\ lock = 0

EquivNext ==
    \/ Tick
    \/ \E p \in Resolvers, h \in EquivHeaders : ResolveBegin(p, h)
    \/ \E p \in Resolvers : Lookup(p)
    \/ \E p \in Resolvers : Verify(p)
    \/ \E p \in Resolvers : CacheSet(p)

SpecEquiv == EquivInit /\ [][EquivNext]_vars

----------------------------------------------------------------------------
\* The ledger after start-up, next to credentials nobody uses.
Init == LedgerInit /\ AuthIdle

Statuses == {"success", "error"}
MarkKinds == {"paid", "overdue", "waived"}

\* SolveView requests next to requests for the current period, which resolve
\* the period in autocommit mode.
SolveNext ==
    \/ \E p \in Procs, s \in Statuses : SolveBegin(p, s)
    \/ \E p \in Procs : CurrentPeriodBegin(p)
    \/ \E p \in Procs : ClearCurrent(p)
    \/ \E p \in Procs : GetPeriod(p)
    \/ \E p \in Procs : CreatePeriod(p)
    \/ \E p \in Procs : SetCurrent(p)
    \/ \E p \in Procs : CreateLog(p)
    \/ \E p \in Procs : SolveSave(p)
    \/ \E p \in Procs : SolveCommit(p)
    \/ NextMonth

SpecSolve == Init /\ [][SolveNext]_vars

\* TestSolveView requests, alone or mixed with SolveView requests.
TestSolveNext ==
    \/ \E p \in Procs, s \in Statuses : SolveBegin(p, s)
    \/ \E p \in Procs, s \in Statuses : TestSolveBegin(p, s)
    \/ \E p \in Procs : ClearCurrent(p)
    \/ \E p \in Procs : GetPeriod(p)
    \/ \E p \in Procs : CreatePeriod(p)
    \/ \E p \in Procs : SetCurrent(p)
    \/ \E p \in Procs : CreateLog(p)
    \/ \E p \in Procs : TestSolveSave(p)
    \/ \E p \in Procs : SolveSave(p)
    \/ \E p \in Procs : SolveCommit(p)
    \/ NextMonth

SpecTestSolve == Init /\ [][TestSolveNext]_vars

\* Both metered endpoints, with ledger statements that may raise.
FaultNext ==
    \/ \E p \in Procs, s \in Statuses : SolveBegin(p, s)
    \/ \E p \in Procs, s \in Statuses : TestSolveBegin(p, s)
    \/ \E p \in Procs : ClearCurrent(p)
    \/ \E p \in Procs : GetPeriod(p)
    \/ \E p \in Procs : CreatePeriod(p)
    \/ \E p \in Procs : SetCurrent(p)
    \/ \E p \in Procs : CreateLog(p)
    \/ \E p \in Procs : TestSolveSave(p)
    \/ \E p \in Procs : SolveSave(p)
    \/ \E p \in Procs : SolveCommit(p)
    \/ \E p \in Procs : SolveRaises(p)
    \/ \E p \in Procs : TestSolveRaises(p)

SpecFault == Init /\ [][FaultNext]_vars

\* SolveView requests whose ledger statements may raise, next to requests
\* for the current period; nothing else writes the totals.
AtomicNext ==
    \/ \E p \in Procs, s \in Statuses : SolveBegin(p, s)
    \/ \E p \in Procs : CurrentPeriodBegin(p)
    \/ \E p \in Procs : ClearCurrent(p)
    \/ \E p \in Procs : GetPeriod(p)
    \/ \E p \in Procs : CreatePeriod(p)
    \/ \E p \in Procs : SetCurrent(p)
    \/ \E p \in Procs : CreateLog(p)
    \/ \E p \in Procs : SolveSave(p)
    \/ \E p \in Procs : SolveCommit(p)
    \/ \E p \in Procs : SolveRaises(p)
    \/ NextMonth

SpecAtomic == Init /\ [][AtomicNext]_vars

\* Metered requests started next to callers of the payment methods.
FrameOps == 2

\* A metered request of either endpoint starts while fewer than FrameOps
\* have.
MeteredBegin(p, op, status) ==
    /\ nOps < FrameOps
    /\ Begin(p, op, status)

\* Every writer of a billing period at once, within one month: both
\* metered endpoints, each with its period resolution, and callers of the
\* payment methods.
MeteredOps == {"solve", "test"}

FrameNext ==
    \/ \E p \in Procs, o \in MeteredOps, s \in Statuses : MeteredBegin(p, o, s)
    \/ \E p \in Procs : ClearCurrent(p)
    \/ \E p \in Procs : GetPeriod(p)
    \/ \E p \in Procs : CreatePeriod(p)
    \/ \E p \in Procs : SetCurrent(p)
    \/ \E p \in Procs : CreateLog(p)
    \/ \E p \in Procs : TestSolveSave(p)
    \/ \E p \in Procs : SolveSave(p)
    \/ \E p \in Procs : SolveCommit(p)
    \/ \E p \in Procs, r \in Months : ModelLoad(p, r)
    \/ \E p \in Procs, k \in MarkKinds : ModelMark(p, k)

SpecFrame == Init /\ [][FrameNext]_vars

\* The admin's payment actions next to requests for the current period.
AdminNext ==
    \/ \E p \in Procs : CurrentPeriodBegin(p)
    \/ \E p \in Procs : ClearCurrent(p)
    \/ \E p \in Procs : GetPeriod(p)
    \/ \E p \in Procs : CreatePeriod(p)
    \/ \E p \in Procs : SetCurrent(p)
    \/ \E p \in Procs, r \in Months : AdminLoad(p, r)
    \/ \E p \in Procs, k \in MarkKinds : AdminMark(p, k)
    \/ NextMonth

SpecAdmin == Init /\ [][AdminNext]_vars

\* The second month: the period of the first month is closed, unpaid and
\* billed for two requests; the period of the second month is current, in
\* any payment status a current period can have been left in.
PaymentStatuses == {"pending", "paid", "overdue", "waived"}

PaymentInit ==
    /\ month = MaxMonth
    /\ rows \in { << [FirstPeriod EXCEPT !.is_current = FALSE,
                                        !.total_requests = 2,
                                        !.total_cost_cents = 2 * cost_per_request_cents],
                     [FirstPeriod EXCEPT !.period_start = MaxMonth,
                                        !.payment_status = st,
                                        !.paid_amount_cents =
                                            IF st = "paid" THEN 0 ELSE @] >> :
                   st \in PaymentStatuses }
    /\ logs = EmptyBag
    /\ tx = [p \in Procs |-> NoTx]
    /\ proc = [p \in Procs |-> Idle]
    /\ nOps = 0
    /\ straddled = FALSE
    /\ returned = [m \in Months |-> {}]
    /\ metered = [m \in Months |-> [solve |-> 0, test |-> 0]]
    /\ overlap = FALSE
    /\ marked = NoMark
    /\ answer = NoAnswer
    /\ AuthIdle

\* Payment methods called by the admin actions, by the command and by other
\* callers, each on an instance it loaded before.
PaymentNext ==
    \/ \E p \in Procs, r \in Months : ModelLoad(p, r)
    \/ \E p \in Procs, k \in MarkKinds : ModelMark(p, k)
    \/ \E p \in Procs, r \in Months : AdminLoad(p, r)
    \/ \E p \in Procs, k \in MarkKinds : AdminMark(p, k)
    \/ \E p \in Procs, r \in Months : CommandLoad(p, r)
    \/ \E p \in Procs : CommandMark(p)

SpecPayment == PaymentInit /\ [][PaymentNext]_vars

\* Callers of the model that pay with an amount, next to the other calls.
AmountNext ==
    \/ \E p \in Procs, r \in Months : ModelLoad(p, r)
    \/ \E p \in Procs, k \in MarkKinds : ModelMark(p, k)
    \/ \E p \in Procs, a \in Amounts : PayAmount(p, a)

SpecAmount == PaymentInit /\ [][AmountNext]_vars

\* Requests to the solve endpoint from the header to the ledger, within one
\* tick of the clock and one month: with the secret of a credential, with a
\* secret that was never issued, and without an Authorization header.
EndToEndHeaders == {Bearer_ \o SecretA1, Bearer_ \o Guess, << >>}

EndToEndNext ==
    \/ \E u \in Users, s \in {SecretA1} : Issue(u, s)
    \/ \E i \in 1..MaxTokens : Revoke(i)
    \/ \E p \in Procs, h \in EndToEndHeaders, s \in Statuses : SolveRequest(p, h, s)
    \/ \E p \in Procs : ClearCurrent(p)
    \/ \E p \in Procs : GetPeriod(p)
    \/ \E p \in Procs : CreatePeriod(p)
    \/ \E p \in Procs : SetCurrent(p)
    \/ \E p \in Procs : CreateLog(p)
    \/ \E p \in Procs : SolveSave(p)
    \/ \E p \in Procs : SolveCommit(p)

SpecEndToEnd == Init /\ [][EndToEndNext]_vars

----------------------------------------------------------------------------
(* Resolver properties *)

\* The stored credentials with the fingerprint of a secret.
Candidates(secret) ==
    {i \in TokenIds : tokens[i].token_prefix = Prefix(secret, PrefixLen)}

\* C7: a resolve called later than TTL after the revocation of a credential
\* never returns that credential, also when another resolve of the secret was
\* in flight while the credential was revoked.
C7_RevocationVisibleAfterTTL ==
    (last.called /\ last.out.kind = "pair") => last.out.token \notin last.late

\* C8: the resolver without a cache returns (user, token) only for the header
\* 'Bearer ' + secret with a tok_ secret whose first twelve characters are the
\* prefix of a stored credential that is not revoked, whose owner is active
\* and verified and whose hash verifies the secret; it returns the owner of
\* that credential and no user in every other case.
C8_UncachedResolverAccepts ==
    (plain.called /\ plain.out.kind = "pair") =>
        LET token == From(plain.header, SchemeLen)
            i == plain.out.token
        IN  /\ plain.header = Bearer_ \o token
            /\ StartsWith(token, tok_)
            /\ i \in TokenIds
            /\ tokens[i].token_prefix = Prefix(token, PrefixLen)
            /\ tokens[i].revoked_at = Null
            /\ users[tokens[i].user].is_active
            /\ users[tokens[i].user].verified
            /\ tokens[i].token_hash = Argon2Hash(token)
            /\ plain.out.user = tokens[i].user

\* A valid credential was presented and accepted.
C8_Witness ==
    /\ plain.called
    /\ plain.header = Bearer_ \o SecretA1
    /\ plain.out.kind = "pair"
    /\ tokens[plain.out.token].last_used_at = now

\* C9 as stated: a secret whose credential is eligible when the caching
\* resolver is called, and still is when the store is read, the only one of
\* its fingerprint, is resolved to (owner, credential) whatever earlier
\* resolves returned.
C9_ValidAlwaysResolves ==
    ( /\ last.called
      /\ installed = "auth"
      /\ last.validAtCall
      /\ Cardinality(Candidates(last.tok)) = 1
      /\ last.lookups > 0 => last.validAtLookup # {} )
    => last.out.kind = "pair"

\* C9 amended: a resolve that finds an unexpired cache entry returns the
\* cached outcome, positive or negative; a resolve that misses the cache and
\* reads an eligible credential from the store returns that credential and its
\* owner, unless a second stored credential has the same fingerprint, when the
\* query raises.
C9_ValidResolvesOnMiss ==
    last.called =>
        /\ last.fresh => last.out = last.cached
        /\ (~last.fresh /\ last.validAtLookup # {}) =>
               \/ /\ last.out.kind = "pair"
                  /\ last.out.token \in last.validAtLookup
                  /\ last.out.user = tokens[last.out.token].user
               \/ /\ last.out.kind = "error"
                  /\ Cardinality(Candidates(last.tok)) > 1

\* The authentication class missed its cache and resolved a valid secret.
C9_Witness ==
    /\ last.called
    /\ installed = "auth"
    /\ ~last.fresh
    /\ last.validAtLookup # {}
    /\ last.out.kind = "pair"

\* C10: a resolve that finds an entry for its secret in the cache, younger
\* than the TTL, returns the outcome of that entry and makes no store lookup
\* and no hash verification.
C10_CachedOutcomeServed ==
    (last.called /\ last.fresh) =>
        /\ last.out = last.cached
        /\ last.lookups = 0
        /\ last.verifies = 0

\* A bad secret next to a valid credential of the same fingerprint was
\* answered from the cache.
C10_Witness ==
    /\ last.called
    /\ last.fresh
    /\ last.tok = Guess
    /\ ValidFor(SecretA1) # {}
    /\ last.out.kind = "none"

----------------------------------------------------------------------------
(* The validation cache on its own *)

\* C11: an entry set at t0 is a hit only for a get at a time t with
\* t - t0 < TTL; a get at t >= t0 + TTL misses and removes the entry, however
\* many hits the entry had in between.
C11_LifetimeFixedAtInsertion ==
    cop.kind = "get" =>
        /\ cop.found => cop.entry = "alive"
        /\ cop.entry = "expired" =>
               /\ ~cop.found
               /\ cop.key \notin Keys(tcache)
               /\ hist.ins[cop.key] = Null

\* A get after the lifetime of an entry that was hit twice.
C11_Witness ==
    /\ cop.kind = "get"
    /\ cop.entry = "expired"
    /\ cop.hits >= MaxHits
    /\ ~cop.found
    /\ cop.key \notin Keys(tcache)

\* C12: a set of a key that is not in the cache, while the cache holds
\* max_size entries, removes exactly one entry: the one whose last access
\* (its set or its latest hit) is the oldest.
C12_EvictsLeastRecentlyAccessed ==
    (cop.kind = "set" /\ ~cop.present /\ cop.full) => cop.victim = "oldest"

\* C13: the cache never holds more than max_size entries.
C13_SizeBounded == Len(tcache) <= MaxSize

\* A set of a new key into a full cache.
C13_Witness ==
    /\ cop.kind = "set"
    /\ ~cop.present
    /\ cop.full
    /\ Len(tcache) = MaxSize

----------------------------------------------------------------------------
(* The solve endpoint from the header to the ledger *)

\* C14: when the only two requests are solve requests that present one
\* issued credential within the TTL and both have been metered, the period
\* counts two requests, two log rows are committed, and Argon2 verification
\* has run exactly once in total.
C14_TwoMeteredOneVerification ==
    (Quiescent /\ nOps = 2 /\ metered[1].solve = 2) =>
        /\ \A r \in RowOf(1) : rows[r].total_requests = 2
        /\ BagCardinality(CommittedLogs(logs)) = 2
        /\ plain.verifies = 1

----------------------------------------------------------------------------
(* Rejections and failures of the caching resolvers *)

\* C15: a secret that does not start with tok_ is rejected before the cache
\* and the store are consulted: the cache never holds an entry for such a
\* secret, and a resolve of one returns no user, was not served from the
\* cache and made no store lookup.
C15_MalformedNeverReachesCache ==
    /\ \A i \in 1..Len(tcache) : StartsWith(tcache[i].key[2][2], tok_)
    /\ (last.called /\ ~StartsWith(last.tok, tok_)) =>
           /\ last.out = None
           /\ ~last.fresh
           /\ last.lookups = 0

\* C16: a resolve whose store query failed, or whose candidate row carries
\* a malformed hash, returns with an error that is not the unauthenticated
\* outcome, grants no user, and the step that returns leaves the cache as it
\* was: no negative entry is written.
C16_FailureNotCached ==
    [][(last' # last /\ last'.fault # "none") =>
           /\ last'.out = Error
           /\ last'.out # None
           /\ last'.out.user = 0
           /\ tcache' = tcache]_vars

\* A resolve ended on a malformed hash while the cache held an entry.
C16_Witness ==
    /\ last.called
    /\ last.fault = "hash"
    /\ last.out = Error
    /\ last.verifies = 1
    /\ tcache # << >>

----------------------------------------------------------------------------
(* The payment state machine *)

\* C17: a payment method called on an instance whose is_current is true
\* raises and changes no field; mark_as_paid and mark_as_overdue called on an
\* instance that is paid raise and change no field.
C17_IllegalCallsRaise ==
    (marked.called /\ marked.invoked) =>
        /\ marked.inst.is_current => marked.raised /\ ~marked.changed
        /\ (marked.kind \in {"paid", "overdue"}
                /\ marked.inst.payment_status = "paid") =>
               marked.raised /\ ~marked.changed

\* mark_as_overdue was called on a closed period that is paid.
C17_Witness ==
    /\ marked.called
    /\ marked.invoked
    /\ marked.kind = "overdue"
    /\ ~marked.inst.is_current
    /\ marked.inst.payment_status = "paid"
    /\ marked.raised

\* C18: a payment method changes payment_status only from pending to paid,
\* overdue or waived, or from overdue to waived; a call that asks for any
\* other change raises and leaves payment_status as it was.
C18_OnlyListedTransitions ==
    LET Listed == {<<"pending", "paid">>, <<"pending", "overdue">>,
                   <<"pending", "waived">>, <<"overdue", "waived">>}
    IN marked.called =>
        /\ marked.was # marked.is => <<marked.was, marked.is>> \in Listed
        /\ (/\ marked.invoked
            /\ marked.inst.payment_status # marked.kind
            /\ <<marked.inst.payment_status, marked.kind>> \notin Listed) =>
               marked.raised /\ marked.is = marked.was

\* C19: once a period is paid, no call changes its payment_status or its
\* paid_amount_cents.
C19_PaidIsTerminal ==
    [][\A r \in RowIds :
          rows[r].payment_status = "paid" =>
              /\ rows'[r].payment_status = "paid"
              /\ rows'[r].paid_amount_cents = rows[r].paid_amount_cents]_vars

\* C20: mark_as_waived called on a closed pending period succeeds, and once a
\* period is waived no call changes its payment_status.
C20_WaivedIsTerminal ==
    [][/\ (/\ marked' # marked
           /\ marked'.invoked
           /\ marked'.kind = "waived"
           /\ ~marked'.inst.is_current
           /\ marked'.inst.payment_status = "pending") =>
              ~marked'.raised /\ marked'.is = "waived"
       /\ \A r \in RowIds :
              rows[r].payment_status = "waived" =>
                  rows'[r].payment_status = "waived"]_vars

\* C21: when a ledger statement of a solve request raises after the model
\* call has completed, the request is not answered as a success.
C21_FailedLedgerWriteNotSuccess ==
    (answer.op = "solve" /\ answer.failed # "none") => answer.code # 200

\* C22: when the totals increment of a metered request raises after its
\* RequestLog row was inserted, the step leaves that row in request_logs.
C22_LogRowSurvivesFailedIncrement ==
    [][(answer'.n # answer.n /\ answer'.failed = "inc") => logs' = logs]_vars

\* C23: a request to the solve endpoint whose header does not resolve to a
\* pair is answered 401 in the step that authenticates it: no model call is
\* made, and no billing period, RequestLog row, pending write or worker
\* changes.
C23_AuthenticationPrecedesBillableWork ==
    [][(nOps' # nOps /\ plain'.out.kind # "pair")
        => /\ answer'.n = answer.n + 1
           /\ answer'.code = 401
           /\ answer'.status = "none"
           /\ rows' = rows /\ logs' = logs /\ tx' = tx /\ proc' = proc]_vars

\* A request with a revoked credential was rejected after another request
\* with the same credential had been metered.
C23_Witness ==
    /\ answer.code = 401
    /\ plain.header = Bearer_ \o SecretA1
    /\ plain.out = None
    /\ \E i \in TokenIds : is_revoked(tokens[i])
    /\ metered[1].solve = 1
    /\ BagCardinality(logs) = 1

\* C24: a resolve writes last_used_at of a credential only when the
\* previous write of that field is at least one marker interval old.
C24_OneTouchPerInterval ==
    [][\A p \in Resolvers :
          (res[p].pc = "write" /\ res'[p].pc = "mark")
             => \/ tokens[res[p].token].last_used_at = Null
                \/ now - tokens[res[p].token].last_used_at >= MarkerTTL]_vars

\* C25: a resolve in which update_last_used or an access to the marker
\* raised still returns the pair.
C25_TouchFailureDoesNotFailResolve ==
    (last.called /\ last.fault \in {"touch", "marker"}) => last.out.kind = "pair"

\* C28: after a revoke request for a credential that was revoked already,
\* revoked_at is what it was before the request.
C28_SecondRevokeIsNoOp ==
    (req.called /\ req.code = 204 /\ req.was # Null)
        => tokens[req.token].revoked_at = req.was

\* C29: no step removes a credential or clears the revoked_at of a
\* credential that carries one.
C29_RevocationIsOneWay ==
    [][/\ Len(tokens') >= Len(tokens)
       /\ \A i \in TokenIds :
             tokens[i].revoked_at # Null => tokens'[i].revoked_at # Null]_vars

\* A credential revoked through the endpoint is still stored, revoked, and
\* a resolve has written its last_used_at after the revocation.
C29_Witness ==
    /\ req.code = 204
    /\ req.token \in TokenIds
    /\ tokens[req.token].revoked_at # Null
    /\ tokens[req.token].last_used_at # Null
    /\ tokens[req.token].last_used_at > tokens[req.token].revoked_at

\* C30: a revoke request by a principal who does not own the credential is
\* answered 404 and changes no credential.
C30_NonOwnerRevokeNotFound ==
    [][(/\ req' # req
        /\ req'.token \in TokenIds
        /\ tokens[req'.token].user # req'.principal)
          => (req'.code = 404 /\ tokens' = tokens)]_vars

\* Another principal asked to revoke a credential; it is not revoked, and a
\* resolve of its secret returned the pair afterwards.
C30_Witness ==
    /\ req.code = 404
    /\ req.principal = OtherUser
    /\ req.token \in TokenIds
    /\ tokens[req.token].user # req.principal
    /\ tokens[req.token].revoked_at = Null
    /\ last.called /\ last.out = Pair(tokens[req.token].user, req.token)

\* C26: no two stored credentials have the same token_prefix.
C26_PrefixUnique ==
    \A i \in TokenIds, j \in TokenIds :
        i # j => tokens[i].token_prefix # tokens[j].token_prefix

\* C27: a resolve returns a pair, from the cache or from the store, only for
\* the secret whose hash the credential carries; a never-issued secret with
\* the fingerprint of a credential is not answered with a pair, and unless
\* its own entry is cached its resolve queries the store.
C27_CacheKeyedByFullSecret ==
    last.called =>
        /\ last.out.kind = "pair"
              => tokens[last.out.token].token_hash = Argon2Hash(last.tok)
        /\ last.cached.kind = "pair"
              => tokens[last.cached.token].token_hash = Argon2Hash(last.tok)
        /\ last.tok = Guess
              => /\ last.out.kind # "pair"
                 /\ ~last.fresh => last.lookups = 1

\* The positive entry of SecretA1 is cached and fresh, and the resolve of
\* Guess, which has the same fingerprint, missed the cache, found the row,
\* ran the verification and returned None.
C27_Witness ==
    /\ \E i \in FreshEntries(CacheKey(SecretA1)) : tcache[i].user # 0
    /\ last.called
    /\ last.tok = Guess
    /\ ~last.fresh
    /\ last.lookups = 1
    /\ last.verifies = 1
    /\ last.out = None

\* C39: after mark_as_paid(amount_cents=a) has saved, paid_amount_cents is
\* a when an amount was supplied, zero included, and the instance's
\* total_cost_cents when none was.
C39_PaidAmountAsSupplied ==
    (marked.called /\ marked.kind = "paid" /\ marked.invoked /\ ~marked.raised)
        => rows[marked.inst.id].paid_amount_cents =
              IF marked.amount = NoAmount THEN marked.inst.total_cost_cents
              ELSE marked.amount

\* C38: while nothing changes the store, the caching authenticate returns
\* for every header what BearerTokenAuthentication.authenticate returns for
\* it: the same pair, None, or the same exception.
C38_CachedEqualsUncached ==
    last.called => last.out = BearerAuthenticate(last.hdr)

\* The caching resolver answered from its cache, with a pair, after the
\* clock had advanced.
C38_Witness ==
    /\ last.called
    /\ last.fresh
    /\ last.out.kind = "pair"
    /\ now > 0

\* C37: TokenCache.set for a key that is in the cache removes no key.
C37_SetOnPresentKeyEvictsNothing ==
    (cop.kind = "set" /\ cop.present) => cop.victim = "none"

\* C32: two resolves of the same secret that both missed the cache and are
\* both about to write it carry the same outcome.
C32_ConcurrentMissesAgree ==
    \A p \in Resolvers, q \in Resolvers :
        (res[p].pc = "set" /\ res[q].pc = "set" /\ res[p].tok = res[q].tok)
            => (res[p].user = res[q].user /\ res[p].token = res[q].token)

\* C36: the write of a last-used touch changes no field of any credential
\* but last_used_at of its own, and a step that changes a revoked_at
\* changes no last_used_at.
C36_TouchAndRevokeWriteOwnField ==
    [][/\ \A p \in Resolvers :
            (res[p].pc = "write" /\ res'[p].pc = "mark")
               => tokens' = [tokens EXCEPT ![res[p].token].last_used_at = now]
       /\ (\E i \in TokenIds : tokens'[i].revoked_at # tokens[i].revoked_at)
            => \A i \in TokenIds :
                  tokens'[i].last_used_at = tokens[i].last_used_at]_vars

\* A resolve answered from the cache has returned the pair of a credential
\* that is revoked in the store and whose last_used_at is later than its
\* revoked_at.
C36_Witness ==
    /\ last.called
    /\ last.fresh
    /\ last.out.kind = "pair"
    /\ tokens[last.out.token].revoked_at # Null
    /\ tokens[last.out.token].last_used_at # Null
    /\ tokens[last.out.token].last_used_at > tokens[last.out.token].revoked_at

\* C33: a call of mark_as_overdue by the mark_overdue_periods command never
\* raises, and it changes only a period whose stored row is pending and
\* not current when the call is made.
C33_CommandMarksOnlyPending ==
    (marked.called /\ marked.via = "command")
        => /\ ~marked.raised
           /\ marked.changed =>
                 (marked.was = "pending" /\ ~rows[marked.inst.id].is_current)

\* C34: in every state, for every period, the committed RequestLog rows of
\* SolveView that name the period are as many as the period's committed
\* total_requests, which SolveView alone raises from zero, and
\* total_cost_cents is that number of request prices.
C34_LogsEqualIncrements ==
    \A r \in RowIds :
        LET n == CopiesIn([status |-> "success", billing_period |-> r,
                           service |-> "core.image_solve", by |-> 0], logs)
                 + CopiesIn([status |-> "error", billing_period |-> r,
                             service |-> "core.image_solve", by |-> 0], logs)
        IN /\ rows[r].total_requests = n
           /\ rows[r].total_cost_cents = n * cost_per_request_cents

\* A SolveView request was rolled back when its totals UPDATE raised, after
\* its log row was inserted, and another one has committed.
C34_Witness ==
    /\ answer.op = "solve"
    /\ answer.failed = "inc"
    /\ \E r \in RowIds : rows[r].by = 0 /\ rows[r].total_requests >= 1

\* C35: a step of a payment method leaves total_requests, total_cost_cents
\* and is_current of every period as they were; a step of the metering
\* increment leaves payment_status, paid_amount_cents and is_current as they
\* were (the commit of SolveView changes is_current only to what the
\* period resolution of the same transaction wrote); a step of
\* get_or_create_current_billing_period leaves the totals, payment_status
\* and paid_amount_cents of every existing period as they were.
C35_WritersKeepTheirFields ==
    [][\A p \in Procs : \A r \in DOMAIN rows :
          /\ (proc[p].pc = "mark" /\ proc'[p].pc = "idle")
                => /\ rows'[r].total_requests = rows[r].total_requests
                   /\ rows'[r].total_cost_cents = rows[r].total_cost_cents
                   /\ rows'[r].is_current = rows[r].is_current
          /\ (proc[p].pc = "inc" /\ proc'[p].pc # "inc")
                => /\ rows'[r].payment_status = rows[r].payment_status
                   /\ rows'[r].paid_amount_cents = rows[r].paid_amount_cents
                   /\ rows'[r].is_current = rows[r].is_current
                   /\ tx'[p].clr = tx[p].clr
                   /\ tx'[p].setcur = tx[p].setcur
          /\ (proc[p].pc = "commit" /\ proc'[p].pc = "idle")
                => /\ rows'[r].payment_status = rows[r].payment_status
                   /\ rows'[r].paid_amount_cents = rows[r].paid_amount_cents
                   /\ rows'[r].is_current =
                         IF r \in tx[p].clr /\ r # tx[p].setcur THEN FALSE
                         ELSE IF r = tx[p].setcur THEN TRUE
                         ELSE rows[r].is_current
          /\ (proc[p].pc \in GocPcs /\ proc'[p] # proc[p])
                => /\ rows'[r].total_requests = rows[r].total_requests
                   /\ rows'[r].total_cost_cents = rows[r].total_cost_cents
                   /\ rows'[r].payment_status = rows[r].payment_status
                   /\ rows'[r].paid_amount_cents = rows[r].paid_amount_cents]_vars

\* A payment method was called on an instance that no longer equals its
\* row and changed the row, whose totals are not those of the instance.
C35_Witness ==
    /\ marked.called
    /\ marked.changed
    /\ marked.stale
    /\ rows[marked.inst.id].total_requests > marked.inst.total_requests

\* C31: the cache lock is held only by a worker inside TokenCache.get or
\* TokenCache.set: a worker at its store lookup or at its hash verification
\* does not hold it, so a worker waiting to enter get or set never waits
\* for one that is looking up or verifying.
C31_LockOnlyInsideGetAndSet ==
    /\ lock # 0 => res[lock].pc \in {"get", "put"}
    /\ \A p \in Resolvers : res[p].pc \in {"lookup", "verify"} => lock # p

\* One worker verifies a hash while another is inside TokenCache.get,
\* holding the lock.
C31_Witness ==
    \E p \in Resolvers, q \in Resolvers :
        /\ res[p].pc = "verify"
        /\ res[q].pc = "get"
        /\ lock = q

====
